---- MODULE Spec2Model ----
(***************************************************************************)
(* A model of the R2 dashboard: the upload modal's capped-concurrency      *)
(* upload manager (components/FileUploadModal), the object listing /       *)
(* upload / delete route handlers, and the credential cache of lib/r2.     *)
(*                                                                         *)
(* JavaScript runs every event handler to completion and then drains the   *)
(* microtask queue (promise continuations) before the next event.  Each    *)
(* handler is one action; the continuation of uploadInParallel's           *)
(* `await Promise.all(...)` is the action LoopResume, and no event action  *)
(* is enabled while that continuation is pending (MicrotaskPending).       *)
(***************************************************************************)
EXTENDS Integers, Sequences, FiniteSets, TLC

\* ------------------------------------------------------------------ bounds
\* Number of files the user may add to the upload list over a behaviour.
MaxFiles == 3

\* ------------------------------------------------------------- state
VARIABLES
  \* FileUploadModal component state
  files,            \* useState<UploadingFile[]>: sequence of [id, progress, status, error]
  uploading,        \* useState(false)
  parallelUploads,  \* useState(3)
  activeUploads,    \* useRef: ids that have an XMLHttpRequest in flight
  isOpen,           \* the isOpen prop (isUploadModalOpen of the bucket page)
  prompt,           \* answer to window.confirm in the last step: none/confirmed/declined
  nextId,           \* number of ids handed out so far (ids are name-Date.now(), unique)
  \* the running uploadInParallel call
  runList,          \* filesToUpload (ids, in order)
  maxParallel,      \* its maxParallel argument (0 while no call is running)
  runI,             \* the loop variable i
  awaiting,         \* ids of the current chunk whose uploadFile promise is not settled
  \* the storage bucket and the bucket page's object listing
  bucket,           \* the objects of the R2 bucket: set of [Key, Size, LastModified]
  query,            \* the listing request parameters of the current useInfiniteQuery
  pages,            \* data.pages: the listing responses received so far
  pageParams,       \* data.pageParams: the continuation token each page was asked with
  bucketChanged,    \* history: the bucket changed since the current query started
  \* the app_config table, the module state of lib/r2.ts and the server's requests
  appConfig,        \* the rows of app_config in insertion order: [key, value, isSecret]
  cachedCredentials,\* let cachedCredentials: Record<string, string> | null
  lastFetch,        \* let lastFetch: number
  now,              \* Date.now(), in minutes
  call,             \* per request: position in getR2Credentials and the rows it read
  returned,         \* the return of getR2Credentials in the last step, if it had one
  setup,            \* the POST /setup/r2 request: position, body, loop index, response status
  \* history of the credential reads, recorded by AgeStep
  readAt,           \* per request: the time its query was answered
  cachedReadAt,     \* the time the rows behind cachedCredentials were read
  changedAt,        \* the time of the last insert of a credential row
  \* the users table and the POST /setup/admin requests
  users,            \* the rows of users in insertion order: [email, role]
  admin,            \* per request: position, email of the body, response
  \* the last run of the functions that keep no state of their own
  gate,             \* the page middleware: path, isLoggedIn, setupNeeded, response
  api,              \* the withAuth wrapper: session, requiredRole, request, status
  search,           \* the search box: query, parseSearchQuery's result, the size parameters sent
  listing,          \* the listing endpoint: bucket, parameters, token, response
  fetch,            \* one page fetch: search text or raw parameters, bucket, stage, response
  \* history of the upload list, recorded by RemovalNext
  removed,          \* the ids of the files removed from the list while 'pending'
  \* the bucket page (BucketView)
  searchQuery,      \* the text of the search box
  filterControls,   \* the filter panel: fileType, minSize, maxSize, dateFrom, dateTo
  selectedObjects   \* the keys whose row checkbox is ticked

uploadVars == <<files, uploading, parallelUploads, activeUploads, isOpen, prompt,
                nextId, runList, maxParallel, runI, awaiting>>

storeVars == <<bucket, query, pages, pageParams, bucketChanged>>

cacheVars == <<appConfig, cachedCredentials, lastFetch, now, call, returned, setup>>

ageVars == <<readAt, cachedReadAt, changedAt>>

adminVars == <<users, admin>>

serverVars == <<cacheVars, ageVars, adminVars>>

selectionVars == <<searchQuery, filterControls, selectedObjects>>

resultVars == <<gate, api, search, listing, fetch, removed, selectionVars>>

clientVars == <<uploadVars, storeVars>>

vars == <<uploadVars, storeVars, serverVars, resultVars>>

\* ------------------------------------------------------------- helpers
Min(a, b) == IF a < b THEN a ELSE b

Range(s) == {s[i] : i \in DOMAIN s}

FileIds == 1..MaxFiles

\* the options of the "Parallel uploads" select
ParallelOptions == {1, 2, 3, 5, 10}

\* values Math.round(loaded / total * 100) takes in the model
ProgressValues == {50}

ErrCancelled == "Upload cancelled"
ErrNetwork == "Network error occurred"
ErrFailed == "Upload failed"

NewFile(id) == [id |-> id, progress |-> 0, status |-> "pending", error |-> "none"]

ToUploading(f) == [f EXCEPT !.status = "uploading"]
ToSuccessOnly(f) == [f EXCEPT !.status = "success"]
ToSuccess(f) == [f EXCEPT !.status = "success", !.progress = 100]
ToErrCancelled(f) == [f EXCEPT !.status = "error", !.error = ErrCancelled]
ToErrNetwork(f) == [f EXCEPT !.status = "error", !.error = ErrNetwork]
ToErrFailed(f) == [f EXCEPT !.status = "error", !.error = ErrFailed]

Patched(f, patch) ==
  CASE patch = "uploading" -> ToUploading(f)
    [] patch = "success" -> ToSuccess(f)
    [] patch = "cancelled" -> ToErrCancelled(f)
    [] patch = "network" -> ToErrNetwork(f)
    [] patch = "failed" -> ToErrFailed(f)

\* prev.map(f => f.id === id ? {...f, ...patch} : f), for the patches the code uses
MapById(fs, ids, patch) ==
  [i \in DOMAIN fs |-> IF fs[i].id \in ids THEN Patched(fs[i], patch) ELSE fs[i]]

IdsWithStatus(fs, st) == {fs[i].id : i \in {j \in DOMAIN fs : fs[j].status = st}}

\* files.filter(f => f.status === st), as the list of ids
FilterStatus(fs, st) ==
  LET Keep(f) == f.status = st
      kept == SelectSeq(fs, Keep)
  IN [i \in DOMAIN kept |-> kept[i].id]

\* ------------------------------------------------- uploadInParallel
\* filesToUpload.slice(i, i + maxParallel)
ChunkTooLong(list, i, n) == SubSeq(list, i + 1, Min(i + n + 1, Len(list)))
Chunk(list, i, n) == SubSeq(list, i + 1, Min(i + n, Len(list)))

\* await Promise.all(chunk.map(uploadFile)): continues once every promise settled
ChunkSettledRace(waiting, chunk) == waiting # Range(chunk)
ChunkSettled(waiting, chunk) == waiting = {}

\* the loop condition i < filesToUpload.length; a failed upload does not end the loop
\* because uploadFile catches every rejection (lines 151-165)
LoopContinuesUnlessFailed(i, list, fs) ==
  /\ i < Len(list)
  /\ \A k \in DOMAIN fs : fs[k].id \in Range(SubSeq(list, 1, i)) => fs[k].status # "error"
LoopContinues(i, list, fs) == i < Len(list)

\* the continuation of the await is queued and runs before any other event
MicrotaskPending ==
  uploading /\ ChunkSettled(awaiting, Chunk(runList, runI, maxParallel))

\* chunk.map(file => uploadFile(file)) up to each call's await: every file of the
\* chunk is marked uploading (when still listed) and its request is sent
StartChunk(fs, list, i, n) ==
  LET ids == Range(Chunk(list, i, n)) IN
  /\ files' = MapById(fs, ids, "uploading")
  /\ activeUploads' = activeUploads \cup ids
  /\ awaiting' = ids

\* uploadInParallel(filesToUpload, maxParallel), up to its first await
UploadInParallel(fs, list, n) ==
  /\ uploading' = TRUE
  /\ runList' = list
  /\ maxParallel' = n
  /\ runI' = 0
  /\ StartChunk(fs, list, 0, n)

\* after the await: i += maxParallel, then the next chunk or the finally block
LoopResume ==
  /\ MicrotaskPending
  /\ IF LoopContinues(runI + maxParallel, runList, files)
       THEN /\ runI' = runI + maxParallel
            /\ StartChunk(files, runList, runI + maxParallel, maxParallel)
            /\ UNCHANGED <<uploading, runList, maxParallel>>
       ELSE \* finally { setUploading(false) }; the call's locals are gone
            /\ uploading' = FALSE
            /\ runList' = <<>>
            /\ maxParallel' = 0
            /\ runI' = 0
            /\ awaiting' = {}
            /\ UNCHANGED <<files, activeUploads>>
  /\ prompt' = "none"
  /\ UNCHANGED <<storeVars, serverVars, resultVars, parallelUploads, isOpen, nextId>>

\* ------------------------------------------------- XMLHttpRequest events
XhrProgress(id, p) ==
  /\ ~MicrotaskPending
  /\ id \in activeUploads
  /\ files' = [i \in DOMAIN files |->
                 IF files[i].id = id THEN [files[i] EXCEPT !.progress = p] ELSE files[i]]
  /\ prompt' = "none"
  /\ UNCHANGED <<storeVars, serverVars, resultVars, uploading, parallelUploads, activeUploads, isOpen, nextId,
                 runList, maxParallel, runI, awaiting>>

\* xhr.onload with a 2xx status (ok) or any other status
XhrLoad(id, ok) ==
  /\ ~MicrotaskPending
  /\ id \in activeUploads
  /\ activeUploads' = activeUploads \ {id}
  /\ files' = IF ok THEN MapById(files, {id}, "success")
                    ELSE MapById(files, {id}, "failed")
  /\ awaiting' = awaiting \ {id}
  /\ prompt' = "none"
  /\ UNCHANGED <<storeVars, serverVars, resultVars, uploading, parallelUploads, isOpen, nextId,
                 runList, maxParallel, runI>>

XhrError(id) ==
  /\ ~MicrotaskPending
  /\ id \in activeUploads
  /\ activeUploads' = activeUploads \ {id}
  /\ files' = MapById(files, {id}, "network")
  /\ awaiting' = awaiting \ {id}
  /\ prompt' = "none"
  /\ UNCHANGED <<storeVars, serverVars, resultVars, uploading, parallelUploads, isOpen, nextId,
                 runList, maxParallel, runI>>

\* ------------------------------------------------- user operations
\* handleFileChange: k new pending files are appended
HandleFileChange(k) ==
  /\ ~MicrotaskPending
  /\ isOpen
  /\ nextId + k <= MaxFiles
  /\ files' = files \o [i \in 1..k |-> NewFile(nextId + i)]
  /\ nextId' = nextId + k
  /\ prompt' = "none"
  /\ UNCHANGED <<storeVars, serverVars, resultVars, uploading, parallelUploads, activeUploads, isOpen,
                 runList, maxParallel, runI, awaiting>>

\* the list after cancelUpload(id): xhr.abort() fires onabort synchronously, then
\* the handler marks the file itself
cancelUploadAll(fs, id) ==
  [i \in DOMAIN fs |-> IF fs[i].status = "uploading" THEN ToErrCancelled(fs[i]) ELSE fs[i]]
cancelUploadFiles(fs, id) == MapById(fs, {id}, "cancelled")

\* cancelUpload(id), from the per-file cancel button shown while it is uploading
CancelUpload(id) ==
  /\ ~MicrotaskPending
  /\ isOpen
  /\ id \in IdsWithStatus(files, "uploading")
  /\ activeUploads' = activeUploads \ {id}
  /\ awaiting' = IF id \in activeUploads THEN awaiting \ {id} ELSE awaiting
  /\ files' = cancelUploadFiles(files, id)
  /\ prompt' = "none"
  /\ UNCHANGED <<storeVars, serverVars, resultVars, uploading, parallelUploads, isOpen, nextId,
                 runList, maxParallel, runI>>

\* removeFile(id), from the remove button shown while it is not uploading
RemoveFromList(id) ==
  /\ ~MicrotaskPending
  /\ isOpen
  /\ \E i \in DOMAIN files : files[i].id = id /\ files[i].status # "uploading"
  /\ activeUploads' = activeUploads \ {id}
  /\ awaiting' = IF id \in activeUploads THEN awaiting \ {id} ELSE awaiting
  /\ LET Keep(f) == f.id # id
     IN files' = SelectSeq(IF id \in activeUploads
                             THEN cancelUploadFiles(files, id) ELSE files, Keep)
  /\ prompt' = "none"
  /\ UNCHANGED <<uploading, parallelUploads, isOpen, nextId, runList, maxParallel, runI>>

RemoveFile(id) ==
  /\ RemoveFromList(id)
  /\ UNCHANGED <<storeVars, serverVars, resultVars>>

\* the list after cancelAllUploads: every active request is aborted (onabort marks
\* its file), then every file still uploading is marked
cancelAllFiles(fs, active) ==
  LET aborted == MapById(fs, active, "cancelled")
  IN [i \in DOMAIN aborted |-> IF aborted[i].status = "uploading"
                                 THEN ToErrCancelled(aborted[i]) ELSE aborted[i]]

\* cancelAllUploads, the main button while uploading
CancelAllUploads ==
  /\ ~MicrotaskPending
  /\ isOpen
  /\ uploading
  /\ files # <<>>
  /\ files' = cancelAllFiles(files, activeUploads)
  /\ activeUploads' = {}
  /\ awaiting' = awaiting \ activeUploads
  /\ prompt' = "none"
  /\ UNCHANGED <<storeVars, serverVars, resultVars, uploading, parallelUploads, isOpen, nextId,
                 runList, maxParallel, runI>>

\* retryFailedUploads: the files it resets and the list it hands to uploadInParallel
retryResetAll(fs) ==
  [i \in DOMAIN fs |-> [fs[i] EXCEPT !.status = "pending", !.progress = 0, !.error = "none"]]
retryReset(fs) ==
  [i \in DOMAIN fs |-> IF fs[i].status = "error"
                         THEN [fs[i] EXCEPT !.status = "pending", !.progress = 0,
                                            !.error = "none"]
                         ELSE fs[i]]

retryFailedUploads ==
  LET failedFiles == FilterStatus(files, "error")
  IN /\ failedFiles # <<>>
     /\ UploadInParallel(retryReset(files), failedFiles, parallelUploads)

\* uploadAll, the main button while not uploading
UploadAll ==
  /\ ~MicrotaskPending
  /\ isOpen
  /\ ~uploading
  /\ files # <<>>
  /\ LET pendingFiles == FilterStatus(files, "pending")
         hasFailedFiles == \E i \in DOMAIN files : files[i].status = "error"
     IN IF pendingFiles = <<>> /\ hasFailedFiles
          THEN retryFailedUploads
          ELSE /\ pendingFiles # <<>>
               /\ UploadInParallel(files, pendingFiles, parallelUploads)
  /\ prompt' = "none"
  /\ UNCHANGED <<storeVars, serverVars, resultVars, parallelUploads, isOpen, nextId>>

\* the select, disabled while uploading
SetParallelUploads(n) ==
  /\ ~MicrotaskPending
  /\ isOpen
  /\ ~uploading
  /\ files # <<>>
  /\ n # parallelUploads
  /\ parallelUploads' = n
  /\ prompt' = "none"
  /\ UNCHANGED <<storeVars, serverVars, resultVars, files, uploading, activeUploads, isOpen, nextId,
                 runList, maxParallel, runI, awaiting>>

\* handleClose: closes at once only when no request is in flight
closesWithoutAsking(active) == TRUE
closesDirectly(active) == active = {}

HandleClose(confirmed) ==
  /\ ~MicrotaskPending
  /\ isOpen
  /\ IF closesDirectly(activeUploads)
       THEN /\ files' = <<>>
            /\ isOpen' = FALSE
            /\ prompt' = "none"
            /\ UNCHANGED <<activeUploads, awaiting>>
       ELSE IF confirmed
         THEN /\ files' = <<>>
              /\ activeUploads' = {}
              /\ awaiting' = awaiting \ activeUploads
              /\ isOpen' = FALSE
              /\ prompt' = "confirmed"
         ELSE /\ prompt' = "declined"
              /\ UNCHANGED <<files, activeUploads, awaiting, isOpen>>
  /\ UNCHANGED <<storeVars, serverVars, resultVars, uploading, parallelUploads, nextId, runList, maxParallel, runI>>

\* the bucket page opens the modal again
OpenModal ==
  /\ ~MicrotaskPending
  /\ ~isOpen
  /\ isOpen' = TRUE
  /\ prompt' = "none"
  /\ UNCHANGED <<storeVars, serverVars, resultVars, files, uploading, parallelUploads, activeUploads, nextId,
                 runList, maxParallel, runI, awaiting>>


\* ================================================= strings
\* A string is the sequence of its characters.
\* UTF-16 code units of the characters the model uses (String.prototype ordering)
CharCode(c) ==
  CASE c = "%" -> 37 [] c = "." -> 46 [] c = "/" -> 47 [] c = "2" -> 50
    [] c = "5" -> 53 [] c = "F" -> 70 [] c = "G" -> 71 [] c = "N" -> 78
    [] c = "P" -> 80 [] c = "R" -> 82 [] c = "a" -> 97 [] c = "b" -> 98
    [] c = "d" -> 100 [] c = "f" -> 102 [] c = "g" -> 103 [] c = "n" -> 110
    [] c = "p" -> 112 [] c = "r" -> 114 [] c = "3" -> 51 [] c = "j" -> 106
    [] c = "m" -> 109 [] c = "s" -> 115

\* String.prototype.toLowerCase, per character
LowerChar(c) ==
  CASE c = "F" -> "f" [] c = "G" -> "g" [] c = "N" -> "n" [] c = "P" -> "p"
    [] c = "R" -> "r" [] c = "B" -> "b" [] c = "K" -> "k" [] c = "M" -> "m"
    [] c = "T" -> "t" [] OTHER -> c
ToLowerCase(s) == [i \in DOMAIN s |-> LowerChar(s[i])]

StartsWith(s, p) == Len(p) <= Len(s) /\ SubSeq(s, 1, Len(p)) = p
EndsWith(s, p) == Len(p) <= Len(s) /\ SubSeq(s, Len(s) - Len(p) + 1, Len(s)) = p
Includes(s, sub) ==
  \E i \in 0..(Len(s) - Len(sub)) : SubSeq(s, i + 1, i + Len(sub)) = sub

\* s.split(sep): the pieces of s between the occurrences of the character sep
RECURSIVE Split(_, _)
Split(s, sep) ==
  IF \A i \in DOMAIN s : s[i] # sep
    THEN <<s>>
    ELSE LET i == CHOOSE j \in DOMAIN s : s[j] = sep /\ \A k \in 1..(j - 1) : s[k] # sep
         IN <<SubSeq(s, 1, i - 1)>> \o Split(SubSeq(s, i + 1, Len(s)), sep)

\* parts.join(sep)
RECURSIVE Join(_, _)
Join(parts, sep) ==
  IF parts = <<>> THEN <<>>
  ELSE IF Len(parts) = 1 THEN parts[1]
  ELSE parts[1] \o <<sep>> \o Join(Tail(parts), sep)

\* string comparison by code units
RECURSIVE StrLess(_, _)
StrLess(s, t) ==
  IF t = <<>> THEN FALSE
  ELSE IF s = <<>> THEN TRUE
  ELSE IF s[1] # t[1] THEN CharCode(s[1]) < CharCode(t[1])
  ELSE StrLess(Tail(s), Tail(t))

\* encodeURIComponent: '/' and '%' are escaped, letters, digits and '.' are kept
RECURSIVE encodeURIComponent(_)
encodeURIComponent(s) ==
  IF s = <<>> THEN <<>>
  ELSE (CASE s[1] = "/" -> <<"%", "2", "F">>
          [] s[1] = "%" -> <<"%", "2", "5">>
          [] OTHER -> <<s[1]>>) \o encodeURIComponent(Tail(s))

\* decodeURIComponent (and URLSearchParams.get) of such a string
RECURSIVE decodeURIComponent(_)
decodeURIComponent(s) ==
  IF s = <<>> THEN <<>>
  ELSE IF Len(s) >= 3 /\ SubSeq(s, 1, 3) = <<"%", "2", "F">>
    THEN <<"/">> \o decodeURIComponent(SubSeq(s, 4, Len(s)))
  ELSE IF Len(s) >= 3 /\ SubSeq(s, 1, 3) = <<"%", "2", "5">>
    THEN <<"%">> \o decodeURIComponent(SubSeq(s, 4, Len(s)))
  ELSE <<s[1]>> \o decodeURIComponent(Tail(s))

\* the absent string parameter / the empty string (both falsy)
Undefined == <<>>
\* the absent number (undefined minSize, maxSize, dateFrom, dateTo)
NoNumber == -1
\* the number parseInt gives for a text without digits, the time of an Invalid Date
NaN == -2

\* ================================================= bucket, upload, delete, listing
\* ------------------------------------------------------------------ bounds
\* MaxKeys of the ListObjectsV2 call (1000 in the route), scaled to the model's bucket
MaxKeys == 1

\* the files the user uploads, and the values of currentPrefix
NameReport == <<"r", ".", "p", "d", "f">>
NamePicture == <<"a", "b", ".", "P", "N", "G">>
FileNames == {NameReport, NamePicture}
FileSize(name) == IF name = NameReport THEN 1 ELSE 3
Prefixes == {<<>>, <<"a">>, <<"a", "/">>}
\* the LastModified values the store may assign
Dates == {2}

\* uploadFile: the path sent for a file under currentPrefix
uploadPathAlwaysSlash(currentPrefix, name) ==
  IF currentPrefix # <<>> THEN currentPrefix \o <<"/">> \o name ELSE name
uploadPath(currentPrefix, name) ==
  IF currentPrefix # <<>>
    THEN currentPrefix \o (IF EndsWith(currentPrefix, <<"/">>) THEN <<>> ELSE <<"/">>) \o name
    ELSE name

\* uploadObject: const key = path || file.name
uploadObjectKey(path, fileName) == IF path # <<>> THEN path ELSE fileName

\* PutObjectCommand / DeleteObjectCommand on the bucket
PutObject(b, key, size, date) ==
  {o \in b : o.Key # key} \cup {[Key |-> key, Size |-> size, LastModified |-> date]}
DeleteObject(b, key) == {o \in b : o.Key # key}

\* the [...key] route parameter of a request path below /objects/, joined again
deleteObjectKey(urlKey) ==
  LET segments == Split(urlKey, "/")
  IN Join([i \in DOMAIN segments |-> decodeURIComponent(segments[i])], "/")

\* uploadFile's request (POST ...objects?path=encodeURIComponent(path)) handled by
\* uploadObject; ok: the PutObject call succeeds
UploadViaModal(currentPrefix, name, date, ok) ==
  LET path == uploadPath(currentPrefix, name)
      pathParam == decodeURIComponent(encodeURIComponent(path))
      key == uploadObjectKey(pathParam, name)
  IN /\ bucket' = IF ok THEN PutObject(bucket, key, FileSize(name), date) ELSE bucket
     /\ bucketChanged' = (bucketChanged \/ bucket' # bucket)
     /\ UNCHANGED <<uploadVars, serverVars, resultVars, query, pages, pageParams>>

\* handleDelete's request for one key (DELETE ...objects/encodeURIComponent(key))
\* handled by deleteObject; ok: the DeleteObject call succeeds
DeleteViaPage(key, ok) ==
  LET k == deleteObjectKey(encodeURIComponent(key))
  IN /\ bucket' = IF k # <<>> /\ ok THEN DeleteObject(bucket, k) ELSE bucket
     /\ bucketChanged' = (bucketChanged \/ bucket' # bucket)
     /\ UNCHANGED <<uploadVars, serverVars, resultVars, query, pages, pageParams>>

\* ------------------------------------------------- the storage API's list call
RECURSIVE SortByKey(_)
SortByKey(objs) ==
  IF objs = {} THEN <<>>
  ELSE LET m == CHOOSE o \in objs : \A x \in objs \ {o} : StrLess(o.Key, x.Key)
       IN <<m>> \o SortByKey(objs \ {m})

\* ListObjectsV2 with Prefix, ContinuationToken and MaxKeys: the next maxKeys keys
\* under the prefix in key order; the token stands for the last key returned
ListObjectsV2(b, prefix, token, maxKeys) ==
  LET rest == SortByKey({o \in b : /\ StartsWith(o.Key, prefix)
                                 /\ (token = Undefined \/ StrLess(token, o.Key))})
      contents == SubSeq(rest, 1, Min(maxKeys, Len(rest)))
  IN [Contents |-> contents,
      NextContinuationToken |->
        IF Len(rest) > maxKeys THEN contents[maxKeys].Key ELSE Undefined,
      KeyCount |-> Len(contents)]

\* ------------------------------------------------- getObjects
\* fileTypeMap[fileType] || [fileType]
extensionsOf(fileType) ==
  CASE fileType = <<"i", "m", "a", "g", "e">> ->
      {<<"j", "p", "g">>, <<"j", "p", "e", "g">>, <<"p", "n", "g">>, <<"g", "i", "f">>, <<"w", "e", "b", "p">>, <<"s", "v", "g">>}
    [] fileType = <<"d", "o", "c", "u", "m", "e", "n", "t">> ->
      {<<"p", "d", "f">>, <<"d", "o", "c">>, <<"d", "o", "c", "x">>, <<"x", "l", "s">>, <<"x", "l", "s", "x">>, <<"p", "p", "t">>, <<"p", "p", "t", "x">>, <<"t", "x", "t">>}
    [] fileType = <<"v", "i", "d", "e", "o">> ->
      {<<"m", "p", "4">>, <<"w", "e", "b", "m">>, <<"a", "v", "i">>, <<"m", "o", "v">>, <<"f", "l", "v">>}
    [] fileType = <<"a", "u", "d", "i", "o">> ->
      {<<"m", "p", "3">>, <<"w", "a", "v">>, <<"o", "g", "g">>, <<"f", "l", "a", "c">>}
    [] fileType = <<"a", "r", "c", "h", "i", "v", "e">> ->
      {<<"z", "i", "p">>, <<"r", "a", "r">>, <<"t", "a", "r">>, <<"g", "z">>, <<"7", "z">>}
    [] OTHER -> {fileType}

\* key.split('.').pop()?.toLowerCase() || ''
extensionOf(key) ==
  LET parts == Split(key, ".") IN ToLowerCase(parts[Len(parts)])

matchesFilename(o, filename) ==
  filename # <<>> => Includes(ToLowerCase(o.Key), ToLowerCase(filename))
matchesFileType(o, fileType) ==
  fileType # <<>> => extensionOf(o.Key) \in extensionsOf(fileType)
\* obj.Size || 0; a comparison with NaN is false
sizeOrZero(o) == IF o.Size = NoNumber THEN 0 ELSE o.Size
matchesMinSize(o, minSize) == minSize # NoNumber => (minSize # NaN /\ sizeOrZero(o) >= minSize)
matchesMaxSizeExclusive(o, maxSize) ==
  maxSize # NoNumber => (maxSize # NaN /\ sizeOrZero(o) < maxSize)
matchesMaxSize(o, maxSize) == maxSize # NoNumber => (maxSize # NaN /\ sizeOrZero(o) <= maxSize)
\* dateFrom !== undefined && !isNaN(dateFrom.getTime())
validDateAlways(date) == date # NoNumber
validDate(date) == date # NoNumber /\ date # NaN
matchesDateFrom(o, dateFrom) == validDate(dateFrom) => o.LastModified >= dateFrom
matchesDateTo(o, dateTo) == validDate(dateTo) => o.LastModified <= dateTo

\* the chain of objects.filter(...) calls
filterObjects(objs, q) ==
  LET F1(o) == matchesFilename(o, q.filename)
      F2(o) == matchesFileType(o, q.fileType)
      F3(o) == matchesMinSize(o, q.minSize)
      F4(o) == matchesMaxSize(o, q.maxSize)
      F5(o) == matchesDateFrom(o, q.dateFrom)
      F6(o) == matchesDateTo(o, q.dateTo)
  IN SelectSeq(SelectSeq(SelectSeq(SelectSeq(SelectSeq(SelectSeq(
       objs, F1), F2), F3), F4), F5), F6)

transformObject(o) == [key |-> o.Key, size |-> sizeOrZero(o), lastModified |-> o.LastModified]

\* nextContinuationToken: response.NextContinuationToken
tokenUnlessEmpty(upstreamToken, objects) ==
  IF objects = <<>> THEN Undefined ELSE upstreamToken
responseToken(upstreamToken, objects) == upstreamToken

\* the JSON body of getObjects for request parameters q and a continuation token
getObjectsPage(b, q, continuationToken, maxKeys) ==
  LET upstream == ListObjectsV2(b, q.prefix, continuationToken, maxKeys)
      objects == filterObjects(upstream.Contents, q)
  IN [objects |-> [i \in DOMAIN objects |-> transformObject(objects[i])],
      nextContinuationToken |-> responseToken(upstream.NextContinuationToken, objects),
      totalObjects |-> upstream.KeyCount]
getObjects(b, q, continuationToken) == getObjectsPage(b, q, continuationToken, MaxKeys)

\* ------------------------------------------------- the bucket page's infinite query
\* getNextPageParam: (lastPage) => lastPage.nextContinuationToken
nextPageParamUntilEmpty(lastPage) ==
  IF lastPage.objects = <<>> THEN Undefined ELSE lastPage.nextContinuationToken
getNextPageParam(lastPage) == lastPage.nextContinuationToken

hasNextPage == pages # <<>> /\ getNextPageParam(pages[Len(pages)]) # Undefined

\* the request parameters the model's queries carry
Queries ==
  [prefix : Prefixes,
   filename : {Undefined, <<"R">>},
   fileType : {Undefined, <<"i", "m", "a", "g", "e">>},
   minSize : {NoNumber}, maxSize : {NoNumber},
   dateFrom : {NoNumber}, dateTo : {NoNumber}]
  \cup
  [prefix : {Undefined},
   filename : {Undefined},
   fileType : {Undefined, <<"p", "d", "f">>},
   minSize : {NoNumber, 2}, maxSize : {NoNumber, 2},
   dateFrom : {NoNumber, 2}, dateTo : {NoNumber, 1}]

NoFilters ==
  [prefix |-> Undefined, filename |-> Undefined, fileType |-> Undefined,
   minSize |-> NoNumber, maxSize |-> NoNumber, dateFrom |-> NoNumber, dateTo |-> NoNumber]

\* a new query key: the first page is fetched with pageParam null
StartQuery(q, ok) ==
  /\ query' = q
  /\ bucketChanged' = FALSE
  /\ IF ok
       THEN /\ pages' = <<getObjects(bucket, q, Undefined)>>
            /\ pageParams' = <<Undefined>>
       ELSE /\ pages' = <<>>
            /\ pageParams' = <<>>
  /\ UNCHANGED <<uploadVars, serverVars, resultVars, bucket>>

\* fetchNextPage, while hasNextPage
FetchNextPage(ok) ==
  /\ hasNextPage
  /\ LET pageParam == getNextPageParam(pages[Len(pages)])
     IN IF ok
          THEN /\ pages' = Append(pages, getObjects(bucket, query, pageParam))
               /\ pageParams' = Append(pageParams, pageParam)
          ELSE UNCHANGED <<pages, pageParams>>
  /\ UNCHANGED <<uploadVars, serverVars, resultVars, bucket, query, bucketChanged>>

StoreInit ==
  /\ bucket = {}
  /\ query = NoFilters
  /\ pages = <<>>
  /\ pageParams = <<>>
  /\ bucketChanged = FALSE

KeyUniverse == {uploadPath(pr, n) : pr \in Prefixes, n \in FileNames}

StoreNext ==
  \/ \E pr \in Prefixes, n \in FileNames, d \in Dates, ok \in BOOLEAN :
       UploadViaModal(pr, n, d, ok)
  \/ \E k \in KeyUniverse, ok \in BOOLEAN : DeleteViaPage(k, ok)
  \/ \E q \in Queries, ok \in BOOLEAN : StartQuery(q, ok)
  \/ \E ok \in BOOLEAN : FetchNextPage(ok)

\* ================================================= credentials and storage setup
\* ------------------------------------------------------------------ bounds
\* Number of requests of the server process that resolve credentials at a time.
MaxCallers == 2
\* Last value of the clock (minutes).
MaxClock == 6

\* const CACHE_TTL = 5 * 60 * 1000 (milliseconds); the model's clock counts minutes
CACHE_TTL == 5

Callers == 1..MaxCallers

\* requiredFields of the setup route, the keys getR2Credentials selects
RequiredFields ==
  <<"CLOUDFLARE_ACCOUNT_ID", "CLOUDFLARE_ACCESS_KEY_ID", "CLOUDFLARE_SECRET_ACCESS_KEY",
    "CLOUDFLARE_API_TOKEN", "CLOUDFLARE_R2_ENDPOINT">>

CredentialKeys == Range(RequiredFields)

\* the values a setup form submits for its fields
FormValues == {"v1"}

\* Object.entries(config) of a request body with every field / without the endpoint
CompleteBody(v) == [i \in 1..Len(RequiredFields) |-> [key |-> RequiredFields[i], value |-> v]]
IncompleteBody(v) == SubSeq(CompleteBody(v), 1, Len(RequiredFields) - 1)
\* a body whose endpoint field is the empty string
BlankBody(v) == [CompleteBody(v) EXCEPT ![Len(RequiredFields)].value = ""]
Bodies ==
  {CompleteBody(v) : v \in FormValues} \cup {IncompleteBody(v) : v \in FormValues}
    \cup {BlankBody(v) : v \in FormValues}

\* the bodies of a setup that is run again, with the same or with new values
RerunValues == FormValues \cup {"v2"}
RerunBodies == {CompleteBody(v) : v \in RerunValues} \cup {IncompleteBody(v) : v \in FormValues}

\* key.includes('KEY') || key.includes('TOKEN')
isSecret(key) ==
  key \in {"CLOUDFLARE_ACCESS_KEY_ID", "CLOUDFLARE_SECRET_ACCESS_KEY", "CLOUDFLARE_API_TOKEN"}

\* a row with the key exists
hasKey(rows, key) == \E i \in DOMAIN rows : rows[i].key = key

\* !config[field]: the field is absent or the empty string
fieldMissing(body, field) == ~\E i \in DOMAIN body : body[i].key = field /\ body[i].value # ""

\* the two early returns with status 400: a required field is missing, or the
\* ListBuckets test call throws
rejectsMissingOnly(body, connected) == \E f \in CredentialKeys : fieldMissing(body, f)

setupRejects(body, connected) ==
  (\E f \in CredentialKeys : fieldMissing(body, f)) \/ ~connected

\* the unique constraint on app_config.key rejects the insert
insertNeverThrows(rows, key) == FALSE

insertThrows(rows, key) == hasKey(rows, key)

\* db.insert(appConfig).values({key, value, isSecret})
insertRow(rows, key, value) ==
  Append(rows, [key |-> key, value |-> value, isSecret |-> isSecret(key)])

\* db.query.appConfig.findMany({where: or(eq(fields.key, ...), ...)})
findMany(rows) == SelectSeq(rows, LAMBDA r : r.key \in CredentialKeys)

\* credentials.reduce((acc, curr) => { acc[curr.key] = curr.value; ... }, {}):
\* the object as its set of <<key, value>> entries, a later row overwriting an earlier
reduceCredentials(rows) ==
  {<<rows[i].key, rows[i].value>> :
     i \in {j \in DOMAIN rows : \A m \in DOMAIN rows : m > j => rows[m].key # rows[j].key}}

\* the values of cachedCredentials: null, or an object
Null == [isNull |-> TRUE, entries |-> {}]
Object(entries) == [isNull |-> FALSE, entries |-> entries]

\* the condition of line 13; any object, also the empty one, is truthy
cacheValidForever(cached, fetched, t) == ~cached.isNull

cacheValid(cached, fetched, t) == ~cached.isNull /\ t - fetched < CACHE_TTL

IdleCall == [pc |-> "idle", rows |-> <<>>]

\* no call returned in the step / request r got the object, with or without a query
NoReturn == [caller |-> 0, read |-> FALSE, result |-> Null]
Return(r, read, object) == [caller |-> r, read |-> read, result |-> object]

IdleSetup == [pc |-> "idle", body |-> <<>>, idx |-> 0, status |-> 0]

\* NextResponse.json(..., {status}): the request has been answered
Responded(status) == [IdleSetup EXCEPT !.pc = "responded", !.status = status]

\* ------------------------------------------------- getR2Credentials
\* the call of request r: the return of the cached object, or the query sent
GetR2Credentials(r) ==
  /\ call[r].pc = "idle"
  /\ IF cacheValid(cachedCredentials, lastFetch, now)
       THEN /\ returned' = Return(r, FALSE, cachedCredentials)
            /\ UNCHANGED call
       ELSE /\ call' = [call EXCEPT ![r] = [IdleCall EXCEPT !.pc = "query"]]
            /\ returned' = NoReturn
  /\ UNCHANGED <<clientVars, resultVars, adminVars, appConfig, cachedCredentials, lastFetch, now, setup>>

\* the database answers the query of request r
FindMany(r) ==
  /\ call[r].pc = "query"
  /\ call' = [call EXCEPT ![r] = [pc |-> "fetched", rows |-> findMany(appConfig)]]
  /\ returned' = NoReturn
  /\ UNCHANGED <<clientVars, resultVars, adminVars, appConfig, cachedCredentials, lastFetch, now, setup>>

\* after the await: reduce, update the cache and the timestamp, return the object
UpdateCache(r) ==
  /\ call[r].pc = "fetched"
  /\ LET credentialsObject == Object(reduceCredentials(call[r].rows))
     IN /\ cachedCredentials' = credentialsObject
        /\ lastFetch' = now
        /\ returned' = Return(r, TRUE, credentialsObject)
  /\ call' = [call EXCEPT ![r] = IdleCall]
  /\ UNCHANGED <<clientVars, resultVars, adminVars, appConfig, now, setup>>

\* Date.now() advances
Tick ==
  /\ now < MaxClock
  /\ now' = now + 1
  /\ returned' = NoReturn
  /\ UNCHANGED <<clientVars, resultVars, adminVars, appConfig, cachedCredentials, lastFetch, call, setup>>

\* ------------------------------------------------- POST /setup/r2
\* validation of the required fields and the ListBuckets test (connected: it succeeds)
SetupPost(body, connected) ==
  /\ setup.pc = "idle"
  /\ IF setupRejects(body, connected)
       THEN setup' = Responded(400)
       ELSE setup' = [pc |-> "insert", body |-> body, idx |-> 1, status |-> 0]
  /\ returned' = NoReturn
  /\ UNCHANGED <<clientVars, resultVars, adminVars, appConfig, cachedCredentials, lastFetch, now, call>>

\* one round of the loop over Object.entries(config): await db.insert(...)
SetupInsert ==
  /\ setup.pc = "insert"
  /\ LET entry == setup.body[setup.idx]
     IN IF insertThrows(appConfig, entry.key)
          THEN /\ setup' = Responded(500)
               /\ UNCHANGED appConfig
          ELSE /\ appConfig' = insertRow(appConfig, entry.key, entry.value)
               /\ setup' = IF setup.idx = Len(setup.body)
                             THEN [setup EXCEPT !.pc = "mark"]
                             ELSE [setup EXCEPT !.idx = @ + 1]
  /\ returned' = NoReturn
  /\ UNCHANGED <<clientVars, resultVars, adminVars, cachedCredentials, lastFetch, now, call>>

\* the insert of the setup_completed row and the response
SetupMark ==
  /\ setup.pc = "mark"
  /\ IF insertThrows(appConfig, "setup_completed")
       THEN /\ setup' = Responded(500)
            /\ UNCHANGED appConfig
       ELSE /\ appConfig' = insertRow(appConfig, "setup_completed", "true")
            /\ setup' = Responded(200)
  /\ returned' = NoReturn
  /\ UNCHANGED <<clientVars, resultVars, adminVars, cachedCredentials, lastFetch, now, call>>

\* the client has received the response of its setup request
SetupEnd ==
  /\ setup.pc = "responded"
  /\ setup' = IdleSetup
  /\ returned' = NoReturn
  /\ UNCHANGED <<clientVars, resultVars, adminVars, appConfig, cachedCredentials, lastFetch, now, call>>

CacheInit ==
  /\ appConfig = <<>>
  /\ cachedCredentials = Null
  /\ lastFetch = 0
  /\ now = 0
  /\ call = [r \in Callers |-> IdleCall]
  /\ returned = NoReturn
  /\ setup = IdleSetup
  /\ readAt = [r \in Callers |-> 0]
  /\ cachedReadAt = 0
  /\ changedAt = 0

\* a step of the credential readers, the clock or the setup route
CacheStep ==
  \/ \E r \in Callers : GetR2Credentials(r)
  \/ \E r \in Callers : FindMany(r)
  \/ \E r \in Callers : UpdateCache(r)
  \/ Tick
  \/ \E body \in Bodies, connected \in BOOLEAN : SetupPost(body, connected)
  \/ SetupInsert
  \/ SetupMark
  \/ SetupEnd

CacheNext == CacheStep /\ UNCHANGED ageVars

\* the history a step leaves: when each query was answered, when the rows now
\* cached were read, and when the credential rows last changed
AgeStep ==
  /\ readAt' = [r \in Callers |->
                  IF call[r].pc = "query" /\ call'[r].pc = "fetched" THEN now ELSE readAt[r]]
  /\ cachedReadAt' = IF \E r \in Callers : call[r].pc = "fetched" /\ call'[r].pc = "idle"
                       THEN readAt[CHOOSE r \in Callers :
                                     call[r].pc = "fetched" /\ call'[r].pc = "idle"]
                       ELSE cachedReadAt
  /\ changedAt' = IF findMany(appConfig') # findMany(appConfig) THEN now ELSE changedAt

AgeNext == CacheStep /\ AgeStep

\* the setup route run repeatedly, and the credential readers, within one clock value
SetupNext ==
  /\ \/ \E body \in RerunBodies, connected \in BOOLEAN : SetupPost(body, connected)
     \/ SetupInsert
     \/ SetupMark
     \/ SetupEnd
     \/ \E r \in Callers : GetR2Credentials(r)
     \/ \E r \in Callers : FindMany(r)
     \/ \E r \in Callers : UpdateCache(r)
  /\ UNCHANGED ageVars

\* ================================================= POST /setup/admin
\* ------------------------------------------------------------------ bounds
\* Number of admin setup requests in progress at a time.
MaxAdminRequests == 2

AdminRequests == 1..MaxAdminRequests

\* the emails the setup form submits
Emails == {"a@x", "b@x"}

\* request bodies: complete ones, and one without each required field
AdminBodies ==
  {[name |-> "n", email |-> e, password |-> "p"] : e \in Emails}
    \cup {[name |-> "", email |-> "a@x", password |-> "p"],
          [name |-> "n", email |-> "", password |-> "p"],
          [name |-> "n", email |-> "a@x", password |-> ""]}

ErrRequired == "Name, email, and password are required"
ErrExists == "Admin account already exists"
ErrCreate == "Failed to create admin account"

IdleAdmin == [pc |-> "idle", email |-> "", status |-> 0, error |-> ""]

\* NextResponse.json({error}, {status}) / NextResponse.json({success: true})
AdminResponded(status, error) ==
  [pc |-> "responded", email |-> "", status |-> status, error |-> error]

\* if (existingUser): any row of users
existingUser(rows) == rows # <<>>

\* the unique constraint on users.email rejects the insert
emailTaken(rows, email) == \E i \in DOMAIN rows : rows[i].email = email

\* the request arrives: validation of name, email and password
AdminPost(q, body) ==
  /\ admin[q].pc = "idle"
  /\ IF body.name = "" \/ body.email = "" \/ body.password = ""
       THEN admin' = [admin EXCEPT ![q] = AdminResponded(400, ErrRequired)]
       ELSE admin' = [admin EXCEPT ![q] = [IdleAdmin EXCEPT !.pc = "check",
                                                            !.email = body.email]]
  /\ UNCHANGED <<clientVars, resultVars, cacheVars, ageVars, users>>

\* await db.query.users.findFirst() and the test of its result
AdminFindFirst(q) ==
  /\ admin[q].pc = "check"
  /\ IF existingUser(users)
       THEN admin' = [admin EXCEPT ![q] = AdminResponded(400, ErrExists)]
       ELSE admin' = [admin EXCEPT ![q].pc = "insert"]
  /\ UNCHANGED <<clientVars, resultVars, cacheVars, ageVars, users>>

\* after await hash(...): await db.insert(users).values({..., role: 'admin'})
AdminInsert(q) ==
  /\ admin[q].pc = "insert"
  /\ IF emailTaken(users, admin[q].email)
       THEN /\ admin' = [admin EXCEPT ![q] = AdminResponded(500, ErrCreate)]
            /\ UNCHANGED users
       ELSE /\ users' = Append(users, [email |-> admin[q].email, role |-> "admin"])
            /\ admin' = [admin EXCEPT ![q] = AdminResponded(200, "")]
  /\ UNCHANGED <<clientVars, resultVars, cacheVars, ageVars>>

\* the client has received the response
AdminEnd(q) ==
  /\ admin[q].pc = "responded"
  /\ admin' = [admin EXCEPT ![q] = IdleAdmin]
  /\ UNCHANGED <<clientVars, resultVars, cacheVars, ageVars, users>>

AdminInit ==
  /\ users = <<>>
  /\ admin = [q \in AdminRequests |-> IdleAdmin]

\* a step of request q
AdminStep(q) ==
  \/ \E body \in AdminBodies : AdminPost(q, body)
  \/ AdminFindFirst(q)
  \/ AdminInsert(q)
  \/ AdminEnd(q)

AdminNext == \E q \in AdminRequests : AdminStep(q)

\* ================================================= the page middleware
PathLogin == <<"/", "l", "o", "g", "i", "n">>
PathSetup == <<"/", "s", "e", "t", "u", "p">>

\* pathnames of requests the matcher lets through to the middleware
Paths ==
  {<<"/">>, <<"/", "b">>, PathLogin, PathSetup, PathSetup \o <<"/", "r", "2">>,
   PathSetup \o <<"-", "x">>, PathLogin \o <<"-", "x">>}

\* userCount[0].count === 0 || configCount[0].count < 3
setupNeeded(userCount, configCount) == userCount = 0 \/ configCount < 3

\* the middleware without the setup check (the file's second version)
middlewareLoginOnly(path, isLoggedIn, needed) ==
  IF StartsWith(path, PathSetup) THEN "next"
  ELSE IF ~isLoggedIn /\ ~StartsWith(path, PathLogin) THEN "/login"
  ELSE IF isLoggedIn /\ StartsWith(path, PathLogin) THEN "/"
  ELSE "next"

\* the middleware that sends every request without a session to /login
middlewareLoginAlways(path, isLoggedIn, needed) ==
  LET isOnLoginPage == StartsWith(path, PathLogin)
      isOnSetupPage == StartsWith(path, PathSetup)
  IN IF isOnSetupPage THEN (IF ~needed THEN "/" ELSE "next")
     ELSE IF needed /\ ~isOnSetupPage THEN "/setup"
     ELSE IF ~isLoggedIn THEN "/login"
     ELSE IF isLoggedIn /\ isOnLoginPage THEN "/"
     ELSE "next"

\* the middleware's answer: "next", or the path it redirects to
middleware(path, isLoggedIn, needed) ==
  LET isOnLoginPage == StartsWith(path, PathLogin)
      isOnSetupPage == StartsWith(path, PathSetup)
  IN IF isOnSetupPage THEN (IF ~needed THEN "/" ELSE "next")
     ELSE IF needed /\ ~isOnSetupPage THEN "/setup"
     ELSE IF ~isLoggedIn /\ ~isOnLoginPage THEN "/login"
     ELSE IF isLoggedIn /\ isOnLoginPage THEN "/"
     ELSE "next"

\* the pathname of new URL(target, req.nextUrl), the request a redirect leads to
redirectPath(target) ==
  CASE target = "/" -> <<"/">>
    [] target = "/setup" -> PathSetup
    [] target = "/login" -> PathLogin

NoGate == [path |-> <<>>, isLoggedIn |-> FALSE, setupNeeded |-> FALSE, response |-> ""]

\* a matched page request, with or without a session
Middleware(path, isLoggedIn) ==
  /\ LET needed == setupNeeded(Len(users), Len(appConfig))
     IN gate' = [path |-> path, isLoggedIn |-> isLoggedIn, setupNeeded |-> needed,
                 response |-> middleware(path, isLoggedIn, needed)]
  /\ UNCHANGED <<clientVars, serverVars, api, search, listing, fetch, removed, selectionVars>>

\* the two setup routes, one request of each at a time, and the page requests
GateNext ==
  \/ AdminStep(1)
  \/ /\ \/ \E body \in Bodies, connected \in BOOLEAN : SetupPost(body, connected)
        \/ SetupInsert
        \/ SetupMark
        \/ SetupEnd
     /\ UNCHANGED ageVars
  \/ \E path \in Paths, isLoggedIn \in BOOLEAN : Middleware(path, isLoggedIn)

\* ================================================= withAuth
\* what auth() gives the wrapper: no session, a session without a user, a session
\* whose user has the role admin or viewer, or an exception
Sessions == {"none", "nouser", "admin", "viewer", "throws"}

\* options.requiredRole: unset (the object routes), or 'admin' (withAdminAuth)
RequiredRoles == {"", "admin"}

\* the wrapper that does not look at the role
withAuthAnyRole(session, requiredRole) ==
  IF session = "throws" THEN 500
  ELSE IF session \in {"none", "nouser"} THEN 401
  ELSE 0

\* the status withAuth answers with itself, or 0 when it calls the handler
withAuth(session, requiredRole) ==
  IF session = "throws" THEN 500
  ELSE IF session \in {"none", "nouser"} THEN 401
  ELSE IF requiredRole # "" /\ session # requiredRole THEN 403
  ELSE 0

NoApi == [session |-> "none", requiredRole |-> "", method |-> "", key |-> <<>>,
          status |-> 0, handled |-> FALSE]

\* a request to a wrapped object route: POST stores the object, DELETE removes it,
\* GET lists; the handler's storage call succeeds
ApiRequest(session, requiredRole, method, key, date) ==
  LET status == withAuth(session, requiredRole)
      handled == status = 0
  IN /\ api' = [session |-> session, requiredRole |-> requiredRole, method |-> method,
                key |-> key, status |-> IF handled THEN 200 ELSE status,
                handled |-> handled]
     /\ bucket' = IF handled /\ method = "POST"
                     THEN PutObject(bucket, key, FileSize(key), date)
                   ELSE IF handled /\ method = "DELETE" THEN DeleteObject(bucket, key)
                   ELSE bucket
     /\ bucketChanged' = (bucketChanged \/ bucket' # bucket)
     /\ UNCHANGED <<uploadVars, serverVars, gate, search, listing, fetch, removed, selectionVars, query, pages, pageParams>>

AuthNext ==
  \E session \in Sessions, requiredRole \in RequiredRoles,
     method \in {"GET", "POST", "DELETE"}, key \in FileNames, date \in Dates :
    ApiRequest(session, requiredRole, method, key, date)

\* ================================================= the bucket page's search box
\* ------------------------------------------------------------------ bounds
\* the longest query over SearchChars
MaxQueryLen == 3

Quote == "\""
Colon == ":"
PrefixType == <<"t", "y", "p", "e", ":">>
PrefixMinSize == <<"s", "i", "z", "e", ">">>
PrefixMaxSize == <<"s", "i", "z", "e", "<">>
PrefixAfter == <<"a", "f", "t", "e", "r", ":">>
PrefixBefore == <<"b", "e", "f", "o", "r", "e", ":">>

\* the index of the '"' that closes the one at i, 0 when there is none
closingQuote(s, i) ==
  IF \E j \in (i + 1)..Len(s) : s[j] = Quote
    THEN CHOOSE j \in (i + 1)..Len(s) : s[j] = Quote /\ \A k \in (i + 1)..(j - 1) : s[k] # Quote
    ELSE 0

\* query.match(/(?:[^\s"]+|"[^"]*")+/g) || [], scanning from i with the match so far:
\* a match grows by a character that is neither space nor '"' or by a closed "..."
\* and ends at a space, at a '"' that is never closed, and at the end of the query
RECURSIVE matchParts(_, _, _)
matchParts(s, i, part) ==
  LET matched == IF part = <<>> THEN <<>> ELSE <<part>>
  IN IF i > Len(s) THEN matched
     ELSE IF s[i] = " " THEN matched \o matchParts(s, i + 1, <<>>)
     ELSE IF s[i] = Quote
       THEN LET j == closingQuote(s, i)
            IN IF j = 0 THEN matched \o matchParts(s, i + 1, <<>>)
               ELSE matchParts(s, j + 1, part \o SubSeq(s, i, j))
     ELSE matchParts(s, i + 1, Append(part, s[i]))

\* part.replace(/^"(.*)"$/, '$1')
cleanPartKeepsQuotes(part) == part
cleanPart(part) ==
  IF Len(part) >= 2 /\ part[1] = Quote /\ part[Len(part)] = Quote
    THEN SubSeq(part, 2, Len(part) - 1)
    ELSE part

NoSearchParams ==
  [prefix |-> Undefined, filename |-> Undefined, type |-> Undefined,
   minSize |-> Undefined, maxSize |-> Undefined,
   dateFrom |-> Undefined, dateTo |-> Undefined]

\* the body of parts.forEach: a part that starts with a filter's prefix is not
\* quoted, so cleanPart is the part and .replace(prefix, '') removes its head
freeTextAlways(part) == TRUE
freeText(part) == ~Includes(part, <<Colon>>)
applyPart(sp, part) ==
  LET clean == cleanPart(part)
      after(p) == SubSeq(clean, Len(p) + 1, Len(clean))
  IN IF StartsWith(part, PrefixType) THEN [sp EXCEPT !.type = after(PrefixType)]
     ELSE IF StartsWith(part, PrefixMinSize) THEN [sp EXCEPT !.minSize = after(PrefixMinSize)]
     ELSE IF StartsWith(part, PrefixMaxSize) THEN [sp EXCEPT !.maxSize = after(PrefixMaxSize)]
     ELSE IF StartsWith(part, PrefixAfter) THEN [sp EXCEPT !.dateFrom = after(PrefixAfter)]
     ELSE IF StartsWith(part, PrefixBefore) THEN [sp EXCEPT !.dateTo = after(PrefixBefore)]
     ELSE IF freeText(part) THEN [sp EXCEPT !.prefix = clean, !.filename = clean]
     ELSE sp

RECURSIVE forEachPart(_, _)
forEachPart(sp, parts) ==
  IF parts = <<>> THEN sp ELSE forEachPart(applyPart(sp, Head(parts)), Tail(parts))

parseSearchQuery(q) == forEachPart(NoSearchParams, matchParts(q, 1, <<>>))

\* ------------------------------------------------- parseSizeString
Digits == <<"0", "1", "2", "3", "4", "5", "6", "7", "8", "9">>
isDigit(c) == c \in Range(Digits)
digitValue(c) == (CHOOSE i \in DOMAIN Digits : Digits[i] = c) - 1

\* the decimal digits of a natural number
RECURSIVE decimal(_)
decimal(n) ==
  IF n < 10 THEN <<Digits[n + 1]>> ELSE Append(decimal(n \div 10), Digits[(n % 10) + 1])

\* A number is held as its decimal digits: the products go beyond 2^31.  digits * m
\* + carry; the double holding it is exact, parseInt(num) being below 2^53 and m a
\* power of two
RECURSIVE times(_, _, _)
times(digits, m, carry) ==
  IF digits = <<>> THEN (IF carry = 0 THEN <<>> ELSE decimal(carry))
  ELSE LET v == digitValue(digits[Len(digits)]) * m + carry
       IN Append(times(SubSeq(digits, 1, Len(digits) - 1), m, v \div 10), Digits[(v % 10) + 1])

\* parseInt(num) of a string of digits
RECURSIVE parseInt(_)
parseInt(num) == IF Len(num) > 1 /\ num[1] = "0" THEN parseInt(Tail(num)) ELSE num

\* multipliers[unit]: the number of factors 1024
UnitB == <<"b">>
multipliersDecimal(unit) ==
  CASE unit = UnitB -> <<>>
    [] unit = <<"k", "b">> -> <<1000>>
    [] unit = <<"m", "b">> -> <<1000, 1000>>
    [] unit = <<"g", "b">> -> <<1000, 1000, 1000>>
    [] unit = <<"t", "b">> -> <<1000, 1000, 1000, 1000>>
multipliers(unit) ==
  CASE unit = UnitB -> <<>>
    [] unit = <<"k", "b">> -> <<1024>>
    [] unit = <<"m", "b">> -> <<1024, 1024>>
    [] unit = <<"g", "b">> -> <<1024, 1024, 1024>>
    [] unit = <<"t", "b">> -> <<1024, 1024, 1024, 1024>>
Units == {UnitB, <<"k", "b">>, <<"m", "b">>, <<"g", "b">>, <<"t", "b">>}

RECURSIVE product(_, _)
product(digits, factors) ==
  IF factors = <<>> THEN digits ELSE product(times(digits, Head(factors), 0), Tail(factors))

\* Number.prototype.toString of an integer: the shortest digits that read back as
\* the same double, filled with zeros below 10^21 and written d.ddde+n from there
\* on.  The numbers of the model are below 2^53 or have at most 15 digits before
\* their trailing zeros, so the shortest digits are the number's own
RECURSIVE withoutTrailingZeros(_)
withoutTrailingZeros(digits) ==
  IF Len(digits) > 1 /\ digits[Len(digits)] = "0"
    THEN withoutTrailingZeros(SubSeq(digits, 1, Len(digits) - 1))
    ELSE digits
numberToString(digits) ==
  IF Len(digits) <= 21 THEN digits
  ELSE LET d == withoutTrailingZeros(digits)
       IN <<d[1]>> \o (IF Len(d) > 1 THEN <<".">> \o Tail(d) ELSE <<>>)
            \o <<"e", "+">> \o decimal(Len(digits) - 1)

\* the length of the longest head of s made of digits: the (\d+) group
digitsAhead(s) ==
  IF \A i \in DOMAIN s : isDigit(s[i]) THEN Len(s)
  ELSE (CHOOSE i \in DOMAIN s : ~isDigit(s[i]) /\ \A k \in 1..(i - 1) : isDigit(s[k])) - 1

\* sizeStr.match(/^(\d+)(b|kb|mb|gb|tb)?$/i), then parseInt(num) * multipliers[unit]
parseSizeString(sizeStr) ==
  LET n == digitsAhead(sizeStr)
      num == SubSeq(sizeStr, 1, n)
      unit == ToLowerCase(SubSeq(sizeStr, n + 1, Len(sizeStr)))
  IN IF n = 0 \/ (unit # <<>> /\ unit \notin Units) THEN Undefined
     ELSE numberToString(product(parseInt(num), multipliers(IF unit = <<>> THEN UnitB ELSE unit)))

\* queryFn: if (parsedSearch.minSize) { const parsedSize = parseSizeString(...);
\* if (parsedSize) searchParams.set('minSize', parsedSize) }
sizeParam(size) == IF size = Undefined THEN Undefined ELSE parseSizeString(size)

\* ------------------------------------------------- the queries typed
SearchChars == {"a", Colon, " ", Quote}
CharQueries == UNION {[1..n -> SearchChars] : n \in 1..MaxQueryLen}

TextA == <<"a">>
TokenQuoted == <<Quote, "a", " ", "a", Quote>>
TokenColon == <<"a", Colon, "a">>
Tokens ==
  {TextA, TokenColon, TokenQuoted, TextA \o TokenQuoted, TokenQuoted \o TextA,
   PrefixType \o TextA, PrefixType \o TokenQuoted, PrefixAfter \o TextA,
   PrefixBefore \o TextA, PrefixMinSize \o <<"1">>, PrefixMaxSize \o <<"1", "k", "b">>}
TokenQueries == Tokens \cup {Join(<<t, u>>, " ") : t, u \in Tokens}

SizeNumbers ==
  {<<"0">>, <<"1">>, <<"0", "0", "7">>, <<"1", "0", "2", "3">>,
   <<"1", "0", "0", "0", "0", "0", "0", "0", "0", "0">>}
SizeUnits ==
  {<<>>, <<"b">>, <<"B">>, <<"k", "b">>, <<"K", "B">>, <<"m", "b">>, <<"M", "b">>,
   <<"g", "b">>, <<"G", "B">>, <<"t", "b">>, <<"T", "B">>}
OtherSizes ==
  {<<>>, <<"m", "b">>, <<"1", "p", "b">>, <<"1", "k">>, <<"1", "k", "b", "b">>,
   <<"1", ".", "5", "m", "b">>, <<"-", "1", "k", "b">>, <<"a", "1">>, <<"1", "a">>}
SizeStrings == {n \o u : n \in SizeNumbers, u \in SizeUnits} \cup OtherSizes
SizeQueries == {p \o s : p \in {PrefixMinSize, PrefixMaxSize}, s \in SizeStrings}

\* the example of the search syntax: type:image size>1mb "my file.png"
TextImage == <<"i", "m", "a", "g", "e">>
TextMyFile == <<"m", "y", " ", "f", "i", "l", "e", ".", "p", "n", "g">>
ExampleQuery ==
  PrefixType \o TextImage \o <<" ">> \o PrefixMinSize \o <<"1", "m", "b">>
    \o <<" ", Quote>> \o TextMyFile \o <<Quote>>

SearchQueries == CharQueries \cup TokenQueries \cup SizeQueries \cup {ExampleQuery}

NoSearch ==
  [query |-> <<>>, parsed |-> NoSearchParams, minSize |-> Undefined, maxSize |-> Undefined]

\* the query function of the object list runs for the text of the search box
Search(q) ==
  LET parsedSearch == parseSearchQuery(q)
  IN /\ search' = [query |-> q, parsed |-> parsedSearch,
                   minSize |-> sizeParam(parsedSearch.minSize),
                   maxSize |-> sizeParam(parsedSearch.maxSize)]
     /\ UNCHANGED <<clientVars, serverVars, gate, api, listing, fetch, removed, selectionVars>>

SearchNext == \E q \in SearchQueries : Search(q)

\* ------------------------------------------------- GET objects, one request
NameSong == <<"s", ".", "m", "p", "3">>
NameScript == <<"m", ".", "j", "s">>
ListedNames == FileNames \cup {NameSong, NameScript}
ListedObjects == {[Key |-> n, Size |-> Len(n) - 3, LastModified |-> 2] : n \in ListedNames}
FileTypes ==
  {Undefined, TextImage, <<"d", "o", "c", "u", "m", "e", "n", "t">>, <<"c", "o", "d", "e">>,
   <<"m", "e", "d", "i", "a">>, <<"a", "r", "c", "h", "i", "v", "e">>, <<"p", "d", "f">>}

NoListing ==
  [bucket |-> {}, q |-> NoFilters, token |-> Undefined, response |-> getObjects({}, NoFilters, Undefined)]

ListObjects(b, fileType, minSize, token) ==
  LET q == [NoFilters EXCEPT !.fileType = fileType, !.minSize = minSize]
  IN /\ listing' = [bucket |-> b, q |-> q, token |-> token,
                    response |-> getObjects(b, q, token)]
     /\ UNCHANGED <<clientVars, serverVars, gate, api, search, fetch, removed, selectionVars>>

ListingNext ==
  \E b \in SUBSET ListedObjects, fileType \in FileTypes, minSize \in {NoNumber, 2},
     token \in {Undefined} \cup FileNames :
    ListObjects(b, fileType, minSize, token)

\* ================================================= one page fetch, search box to response
\* ------------------------------------------------------------------ bounds
\* MaxKeys of the ListObjectsV2 call (1000 in the route), scaled to the buckets fetch
FetchMaxKeys == 2

\* ------------------------------------------------- queryFn: the request parameters
\* s.lastIndexOf(c), counted from 1; 0 when c is not in s
lastIndexOf(s, c) ==
  LET at == {i \in DOMAIN s : s[i] = c}
  IN IF at = {} THEN 0 ELSE CHOOSE i \in at : \A j \in at : j <= i

\* the searchParams of the request for a parsed search: text that starts with '/'
\* is a prefix, other text is a filename and, up to its last '/' or when it has at
\* most two characters, a prefix too
shortPrefixNever(text) == FALSE
shortPrefix(text) == Len(text) <= 2
queryFnParams(parsedSearch) ==
  LET text == parsedSearch.prefix
      slash == lastIndexOf(text, "/")
      prefix == IF text = Undefined THEN Undefined
                ELSE IF text[1] = "/" THEN Tail(text)
                ELSE IF slash > 0 THEN (IF slash > 1 THEN SubSeq(text, 1, slash) ELSE Undefined)
                ELSE IF shortPrefix(text) THEN text
                ELSE Undefined
      filename == IF text # Undefined /\ text[1] # "/" THEN text ELSE Undefined
  IN [prefix |-> prefix, filename |-> filename, fileType |-> parsedSearch.type,
      minSize |-> sizeParam(parsedSearch.minSize),
      maxSize |-> sizeParam(parsedSearch.maxSize),
      dateFrom |-> parsedSearch.dateFrom, dateTo |-> parsedSearch.dateTo]

\* ------------------------------------------------- getObjects: reading the parameters
RECURSIVE toNumber(_)
toNumber(digits) ==
  IF digits = <<>> THEN 0
  ELSE 10 * toNumber(SubSeq(digits, 1, Len(digits) - 1)) + digitValue(digits[Len(digits)])

\* searchParams.get(name) ? parseInt(searchParams.get(name) || '0', 10) : undefined,
\* for texts without a sign: the digits ahead, NaN when there is none
parseIntParam(s) ==
  IF s = Undefined THEN NoNumber
  ELSE IF digitsAhead(s) = 0 THEN NaN
  ELSE toNumber(SubSeq(s, 1, digitsAhead(s)))

\* searchParams.get(name) ? new Date(searchParams.get(name) || '') : undefined; the
\* dates of the model are written as the numerals of LastModified, any other text
\* gives an Invalid Date
newDate(s) ==
  IF s = Undefined THEN NoNumber
  ELSE IF digitsAhead(s) = Len(s) THEN toNumber(s)
  ELSE NaN

requestFilters(params) ==
  [prefix |-> params.prefix, filename |-> params.filename, fileType |-> params.fileType,
   minSize |-> parseIntParam(params.minSize), maxSize |-> parseIntParam(params.maxSize),
   dateFrom |-> newDate(params.dateFrom), dateTo |-> newDate(params.dateTo)]

ErrList == [error |-> "Failed to list objects"]

\* the response of GET objects; ok: the storage call succeeds
getObjectsResponse(b, params, token, ok) ==
  IF ok
    THEN [status |-> 200, body |-> getObjectsPage(b, requestFilters(params), token, FetchMaxKeys)]
    ELSE [status |-> 500, body |-> ErrList]

\* ------------------------------------------------- the fetches
NamePlain == <<"p", "d">>
FetchObjects ==
  ListedObjects \cup {[Key |-> NamePlain, Size |-> NoNumber, LastModified |-> 1]}
FetchTokens == {Undefined, NameReport}

TextX == <<"x">>
PlainTokens == {<<"p">>, <<"p", "d">>, <<"p", "d", "f">>, <<"P", "N">>, <<"m">>, <<"r", ".">>}
MalformedTokens ==
  {PrefixMinSize \o TextX, PrefixMaxSize \o <<"1", ".", "5">>,
   PrefixAfter \o TextX, PrefixBefore \o TextX}
FilterTokens ==
  {PrefixMinSize \o <<"2">>, PrefixMaxSize \o <<"2">>, PrefixAfter \o <<"2">>,
   PrefixBefore \o <<"1">>, PrefixType \o <<"p", "d", "f">>}
TextTokens == PlainTokens \cup MalformedTokens \cup FilterTokens
FetchTexts == TextTokens \cup {Join(<<t, u>>, " ") : t, u \in TextTokens}

NoParams ==
  [prefix |-> Undefined, filename |-> Undefined, fileType |-> Undefined,
   minSize |-> Undefined, maxSize |-> Undefined, dateFrom |-> Undefined, dateTo |-> Undefined]
RawSizes == {Undefined, <<"0">>, <<"2">>, <<"3">>, TextX}
RawDates == {Undefined, <<"2">>, TextX}
RawParams ==
  {[NoParams EXCEPT !.minSize = lo, !.maxSize = hi, !.dateFrom = from] :
     lo \in RawSizes, hi \in RawSizes, from \in RawDates}

NoResponse == [status |-> 0, body |-> <<>>]
NoFetch ==
  [stage |-> "none", text |-> <<>>, params |-> NoParams, bucket |-> {},
   token |-> Undefined, response |-> NoResponse]

\* the fetches of the model: a text in the search box, or a request sent as it is
Fetches ==
  {[NoFetch EXCEPT !.stage = "typed", !.text = text, !.bucket = b, !.token = token] :
     text \in FetchTexts, b \in SUBSET FetchObjects, token \in FetchTokens}
  \cup
  {[NoFetch EXCEPT !.stage = "sent", !.params = params, !.bucket = b, !.token = token] :
     params \in RawParams, b \in SUBSET FetchObjects, token \in FetchTokens}

\* queryFn builds the request
QueryFn ==
  /\ fetch.stage = "typed"
  /\ fetch' = [fetch EXCEPT !.stage = "sent",
                                !.params = queryFnParams(parseSearchQuery(fetch.text))]
  /\ UNCHANGED <<clientVars, serverVars, gate, api, search, listing, removed, selectionVars>>

\* the route answers it
GetObjectsRoute(ok) ==
  /\ fetch.stage = "sent"
  /\ fetch' = [fetch EXCEPT !.stage = "answered",
                                !.response = getObjectsResponse(fetch.bucket, fetch.params,
                                                                fetch.token, ok)]
  /\ UNCHANGED <<clientVars, serverVars, gate, api, search, listing, removed, selectionVars>>

\* ================================================= the bucket page's selection
\* the options of the File Type select and the extensions typeMatches gives them
TypeImages == <<"i", "m", "a", "g", "e", "s">>
TypeDocuments == <<"d", "o", "c", "u", "m", "e", "n", "t", "s">>
TypeCode == <<"c", "o", "d", "e">>
TypeMedia == <<"m", "e", "d", "i", "a">>
TypeArchives == <<"a", "r", "c", "h", "i", "v", "e", "s">>

typeMatches(fileType) ==
  CASE fileType = TypeImages ->
      {<<"j", "p", "g">>, <<"j", "p", "e", "g">>, <<"p", "n", "g">>, <<"g", "i", "f">>,
       <<"w", "e", "b", "p">>, <<"s", "v", "g">>}
    [] fileType = TypeDocuments ->
      {<<"p", "d", "f">>, <<"d", "o", "c">>, <<"d", "o", "c", "x">>, <<"t", "x", "t">>,
       <<"r", "t", "f">>, <<"o", "d", "t">>, <<"m", "d">>, <<"c", "s", "v">>}
    [] fileType = TypeCode ->
      {<<"j", "s">>, <<"t", "s">>, <<"p", "y">>, <<"j", "a", "v", "a">>, <<"c", "p", "p">>,
       <<"h", "t", "m", "l">>, <<"c", "s", "s">>, <<"j", "s", "o", "n">>,
       <<"y", "a", "m", "l">>, <<"y", "m", "l">>}
    [] fileType = TypeMedia ->
      {<<"m", "p", "3">>, <<"m", "p", "4">>, <<"a", "v", "i">>, <<"m", "o", "v">>, <<"w", "a", "v">>}
    [] fileType = TypeArchives ->
      {<<"z", "i", "p">>, <<"r", "a", "r">>, <<"7", "z">>, <<"t", "a", "r">>, <<"g", "z">>}
    [] OTHER -> {}

\* the filter panel with every control empty
NoControls ==
  [fileType |-> <<>>, minSize |-> NoNumber, maxSize |-> NoNumber,
   dateFrom |-> NoNumber, dateTo |-> NoNumber]

\* data.pages.flatMap(page => page.objects)
RECURSIVE allObjects(_)
allObjects(ps) == IF ps = <<>> THEN <<>> ELSE Head(ps).objects \o allObjects(Tail(ps))

\* the test of filteredObjects: the controls that are set, applied to one object
passesControls(obj, c) ==
  /\ c.fileType # <<>> => extensionOf(obj.key) \in typeMatches(c.fileType)
  /\ c.minSize # NoNumber => ~(obj.size < c.minSize)
  /\ c.maxSize # NoNumber => ~(obj.size > c.maxSize)
  /\ c.dateFrom # NoNumber => ~(obj.lastModified < c.dateFrom)
  /\ c.dateTo # NoNumber => ~(obj.lastModified > c.dateTo)

\* filteredObjects; the sort before it changes the order only
filteredObjects(ps, c) ==
  LET Passes(obj) == passesControls(obj, c) IN SelectSeq(allObjects(ps), Passes)

displayedKeys == {obj.key : obj \in Range(filteredObjects(pages, filterControls))}

\* the objects of the bucket the page shows, the texts typed into the search box
\* and the values given to the controls
SelectionObjects == {o \in ListedObjects : o.Key # NameScript}
SelectionTexts == {<<>>, <<"p", "d", "f">>, <<"m">>}
ControlTypes == {<<>>, TypeImages, TypeMedia}
ControlSizes == {NoNumber, 2}
ControlDates == {NoNumber, 2}

\* the row checkbox of a displayed object: its key is added or taken out
ToggleRow(key) ==
  /\ key \in displayedKeys
  /\ selectedObjects' = IF key \in selectedObjects
                          THEN selectedObjects \ {key} ELSE selectedObjects \cup {key}
  /\ UNCHANGED <<clientVars, serverVars, gate, api, search, listing, fetch, removed,
                 searchQuery, filterControls>>

\* the header checkbox: ticked, it selects every displayed object; cleared, none
headerChecked ==
  LET shown == filteredObjects(pages, filterControls)
  IN Len(shown) > 0 /\ Cardinality(selectedObjects) = Len(shown)

SelectAll ==
  /\ selectedObjects' = IF ~headerChecked THEN displayedKeys ELSE {}
  /\ selectedObjects' # selectedObjects
  /\ UNCHANGED <<clientVars, serverVars, gate, api, search, listing, fetch, removed,
                 searchQuery, filterControls>>

\* onChange of a filter control: the value is stored and, when it differs from the
\* current one, the selection is emptied
resetsSelection(c, d) == c # d

SetControls(c) ==
  /\ filterControls' = c
  /\ selectedObjects' = IF resetsSelection(c, filterControls) THEN {} ELSE selectedObjects
  /\ UNCHANGED <<clientVars, serverVars, gate, api, search, listing, fetch, removed,
                 searchQuery>>

SetFileType(v) == v # filterControls.fileType /\ SetControls([filterControls EXCEPT !.fileType = v])
SetMinSize(v) == v # filterControls.minSize /\ SetControls([filterControls EXCEPT !.minSize = v])
SetMaxSize(v) == v # filterControls.maxSize /\ SetControls([filterControls EXCEPT !.maxSize = v])
SetDateFrom(v) == v # filterControls.dateFrom /\ SetControls([filterControls EXCEPT !.dateFrom = v])
SetDateTo(v) == v # filterControls.dateTo /\ SetControls([filterControls EXCEPT !.dateTo = v])

\* the Reset Filters button
ResetFilters ==
  /\ filterControls # NoControls \/ selectedObjects # {}
  /\ filterControls' = NoControls
  /\ selectedObjects' = {}
  /\ UNCHANGED <<clientVars, serverVars, gate, api, search, listing, fetch, removed,
                 searchQuery>>

\* onChange of the search box: setSearchQuery only; the query key changes and the
\* first page of the new query is fetched (ok: the fetch succeeds)
SetSearchQuery(text, ok) ==
  /\ text # searchQuery
  /\ searchQuery' = text
  /\ query' = requestFilters(queryFnParams(parseSearchQuery(text)))
  /\ IF ok
       THEN /\ pages' = <<getObjects(bucket, query', Undefined)>>
            /\ pageParams' = <<Undefined>>
       ELSE /\ pages' = <<>>
            /\ pageParams' = <<>>
  /\ UNCHANGED <<uploadVars, serverVars, gate, api, search, listing, fetch, removed,
                 bucket, bucketChanged, filterControls, selectedObjects>>

\* handleDelete with the answer to window.confirm and the outcome of the refetch
\* that follows a complete deletion; failures: the selected keys whose DELETE fails
HandleDelete(confirmed, refetched) ==
  /\ selectedObjects # {}
  /\ \E failures \in SUBSET selectedObjects :
     IF ~confirmed
       THEN UNCHANGED <<bucket, bucketChanged, pages, pageParams, selectedObjects>>
       ELSE LET deleted == {deleteObjectKey(encodeURIComponent(key)) :
                              key \in selectedObjects \ failures}
            IN /\ bucket' = {o \in bucket : o.Key \notin deleted}
               /\ bucketChanged' = (bucketChanged \/ bucket' # bucket)
               /\ IF failures # {}
                    THEN UNCHANGED <<pages, pageParams, selectedObjects>>
                    ELSE /\ selectedObjects' = {}
                         /\ IF refetched
                              THEN /\ pages' = <<getObjects(bucket',
                                                   [NoFilters EXCEPT !.prefix = searchQuery],
                                                   Undefined)>>
                                   /\ pageParams' = <<Undefined>>
                              ELSE /\ pages' = <<>>
                                   /\ pageParams' = <<>>
  /\ UNCHANGED <<uploadVars, serverVars, gate, api, search, listing, fetch, removed,
                 query, searchQuery, filterControls>>

\* ------------------------------------------------- specification
UploadInit ==
  /\ files = <<>>
  /\ uploading = FALSE
  /\ parallelUploads = 3
  /\ activeUploads = {}
  /\ isOpen = TRUE
  /\ prompt = "none"
  /\ nextId = 0
  /\ runList = <<>>
  /\ maxParallel = 0
  /\ runI = 0
  /\ awaiting = {}

\* the value of gate, api, search, listing and fetch in the behaviours of a
\* specification that makes no request of their kind
Unobserved == <<>>

\* the modal, the bucket, the server process and the page after construction
ProgramInit ==
  /\ UploadInit /\ StoreInit /\ CacheInit /\ AdminInit
  /\ removed = {}
  /\ searchQuery = <<>> /\ filterControls = NoControls /\ selectedObjects = {}

Init ==
  /\ ProgramInit
  /\ gate = Unobserved /\ api = Unobserved /\ search = Unobserved
  /\ listing = Unobserved /\ fetch = Unobserved

\* the same state before the first request of the kind a specification observes
GateInit ==
  /\ ProgramInit
  /\ gate = NoGate /\ api = Unobserved /\ search = Unobserved
  /\ listing = Unobserved /\ fetch = Unobserved

AuthInit ==
  /\ ProgramInit
  /\ gate = Unobserved /\ api = NoApi /\ search = Unobserved
  /\ listing = Unobserved /\ fetch = Unobserved

SearchInit ==
  /\ ProgramInit
  /\ gate = Unobserved /\ api = Unobserved /\ search = NoSearch
  /\ listing = Unobserved /\ fetch = Unobserved

ListingInit ==
  /\ ProgramInit
  /\ gate = Unobserved /\ api = Unobserved /\ search = Unobserved
  /\ listing = NoListing /\ fetch = Unobserved

FetchInit ==
  /\ ProgramInit
  /\ gate = Unobserved /\ api = Unobserved /\ search = Unobserved
  /\ listing = Unobserved /\ fetch \in Fetches

FetchNext ==
  \/ QueryFn
  \/ \E ok \in BOOLEAN : GetObjectsRoute(ok)

Next ==
  \/ \E k \in 1..MaxFiles : HandleFileChange(k)
  \/ \E id \in FileIds : RemoveFile(id)
  \/ UploadAll
  \/ LoopResume
  \/ \E id \in FileIds, p \in ProgressValues : XhrProgress(id, p)
  \/ \E id \in FileIds, ok \in BOOLEAN : XhrLoad(id, ok)
  \/ \E id \in FileIds : XhrError(id)
  \/ \E id \in FileIds : CancelUpload(id)
  \/ CancelAllUploads
  \/ \E n \in ParallelOptions : SetParallelUploads(n)
  \/ \E c \in BOOLEAN : HandleClose(c)
  \/ OpenModal

Spec == Init /\ [][Next]_vars

\* the steps of Next, a removal of a pending file being noted in removed
IsPending(id) == \E i \in DOMAIN files : files[i].id = id /\ files[i].status = "pending"
RemovalNext ==
  \/ \E id \in FileIds :
       /\ RemoveFromList(id)
       /\ removed' = IF IsPending(id) THEN removed \cup {id} ELSE removed
       /\ UNCHANGED <<storeVars, serverVars, gate, api, search, listing, fetch, selectionVars>>
  \/ \E k \in 1..MaxFiles : HandleFileChange(k)
  \/ UploadAll
  \/ LoopResume
  \/ \E id \in FileIds, p \in ProgressValues : XhrProgress(id, p)
  \/ \E id \in FileIds, ok \in BOOLEAN : XhrLoad(id, ok)
  \/ \E id \in FileIds : XhrError(id)
  \/ \E id \in FileIds : CancelUpload(id)
  \/ CancelAllUploads
  \/ \E n \in ParallelOptions : SetParallelUploads(n)
  \/ \E c \in BOOLEAN : HandleClose(c)
  \/ OpenModal

\* the bucket, its routes and the bucket page's listing
StoreSpec == Init /\ [][StoreNext]_vars

\* upload, listing by prefix alone, and delete
RoundTripNext ==
  \/ \E pr \in Prefixes, n \in FileNames, d \in Dates, ok \in BOOLEAN :
       UploadViaModal(pr, n, d, ok)
  \/ \E k \in KeyUniverse, ok \in BOOLEAN : DeleteViaPage(k, ok)
  \/ \E pr \in Prefixes, ok \in BOOLEAN : StartQuery([NoFilters EXCEPT !.prefix = pr], ok)
  \/ \E ok \in BOOLEAN : FetchNextPage(ok)

RoundTripSpec == Init /\ [][RoundTripNext]_vars

\* Every started request eventually fires load or error (the assumption of the
\* termination claim), and a queued promise continuation always runs.
XhrSettles == \E id \in FileIds : (\E ok \in BOOLEAN : XhrLoad(id, ok)) \/ XhrError(id)

FairSpec == Spec /\ WF_vars(LoopResume) /\ WF_vars(XhrSettles)

\* credential resolution and storage setup in one server process
CacheSpec == Init /\ [][CacheNext]_vars

\* the same steps with the history of the reads recorded
AgeSpec == Init /\ [][AgeNext]_vars

\* setup requests one after another, next to the credential readers
SetupSpec == Init /\ [][SetupNext]_vars

\* concurrent POST /setup/admin requests
AdminSpec == Init /\ [][AdminNext]_vars

\* first-run setup and the page middleware
GateSpec == GateInit /\ [][GateNext]_vars

\* requests to the wrapped object routes
AuthSpec == AuthInit /\ [][AuthNext]_vars

\* the search box alone
SearchSpec == SearchInit /\ [][SearchNext]_vars

\* single requests to the listing endpoint
ListingSpec == ListingInit /\ [][ListingNext]_vars

\* single page fetches
FetchSpec == FetchInit /\ [][FetchNext]_vars

\* the bucket page over a bucket of three objects, its first page loaded
SelectionInit ==
  /\ UploadInit /\ CacheInit /\ AdminInit
  /\ bucket = SelectionObjects
  /\ query = NoFilters
  /\ pages = <<getObjects(SelectionObjects, NoFilters, Undefined)>>
  /\ pageParams = <<Undefined>>
  /\ bucketChanged = FALSE
  /\ gate = Unobserved /\ api = Unobserved /\ search = Unobserved
  /\ listing = Unobserved /\ fetch = Unobserved
  /\ removed = {}
  /\ searchQuery = <<>> /\ filterControls = NoControls /\ selectedObjects = {}

SelectionNext ==
  \/ \E key \in {o.Key : o \in SelectionObjects} : ToggleRow(key)
  \/ SelectAll
  \/ \E v \in ControlTypes : SetFileType(v)
  \/ \E v \in ControlSizes : SetMinSize(v)
  \/ \E v \in ControlSizes : SetMaxSize(v)
  \/ \E v \in ControlDates : SetDateFrom(v)
  \/ \E v \in ControlDates : SetDateTo(v)
  \/ ResetFilters
  \/ \E text \in SelectionTexts, ok \in BOOLEAN : SetSearchQuery(text, ok)
  \/ \E ok \in BOOLEAN : FetchNextPage(ok)
  \/ \E confirmed, refetched \in BOOLEAN : HandleDelete(confirmed, refetched)

SelectionSpec == SelectionInit /\ [][SelectionNext]_vars

\* the upload modal, with the removals of pending files recorded
RemovalSpec == Init /\ [][RemovalNext]_vars

\* ================================================================ claims
\* the list entry of file id, when it is still listed
Listed(fs, id) == \E i \in DOMAIN fs : fs[i].id = id
StatusOf(fs, id) == (CHOOSE f \in Range(fs) : f.id = id).status
Finished(fs, id) == Listed(fs, id) => StatusOf(fs, id) \in {"success", "error"}

\* 0-based chunk number of position p of the running call's list
ChunkOf(p) == (p - 1) \div maxParallel

\* C1: the number of files whose status is 'uploading' never exceeds the cap
\* maxParallel of the running uploadInParallel call (and is 0 when none runs).
C1_UploadingWithinCap ==
  Cardinality(IdsWithStatus(files, "uploading")) <= maxParallel

\* a run of more files than the cap, with exactly cap files uploading
C1_Witness ==
  /\ uploading
  /\ maxParallel >= 2
  /\ Len(runList) > maxParallel
  /\ Cardinality(IdsWithStatus(files, "uploading")) = maxParallel

\* C2: chunks are processed in list order: whenever a file of a later chunk is
\* uploading (or has a request in flight), every file of every earlier chunk has
\* reached success or error and has no request in flight.
C2_ChunksSequential ==
  \A p, q \in DOMAIN runList :
    (ChunkOf(p) < ChunkOf(q)
       /\ (runList[q] \in activeUploads
             \/ (Listed(files, runList[q]) /\ StatusOf(files, runList[q]) = "uploading")))
      => (Finished(files, runList[p]) /\ runList[p] \notin activeUploads)

\* a file of the second chunk is uploading after the first chunk ended
C2_Witness ==
  \E p, q \in DOMAIN runList :
    /\ ChunkOf(p) = 0 /\ ChunkOf(q) = 1
    /\ Listed(files, runList[p]) /\ StatusOf(files, runList[p]) = "success"
    /\ Listed(files, runList[q]) /\ StatusOf(files, runList[q]) = "uploading"

\* C3: cancelUpload(id) on an uploading file removes its request, marks it error
\* with reason 'Upload cancelled', and leaves the entry (status, progress, error)
\* and the in-flight request of every other file unchanged.
C3_CancelOnlyThatFile ==
  [][\A id \in FileIds :
       (CancelUpload(id) /\ id \in activeUploads) =>
         /\ id \notin activeUploads'
         /\ Len(files') = Len(files)
         /\ \A i \in DOMAIN files :
              IF files[i].id = id
                THEN /\ files'[i].status = "error"
                     /\ files'[i].error = ErrCancelled
                     /\ files'[i].progress = files[i].progress
                ELSE /\ files'[i] = files[i]
                     /\ (files[i].id \in activeUploads') = (files[i].id \in activeUploads)
         /\ activeUploads' = activeUploads \ {id}]_vars

\* one file of a chunk is cancelled while a sibling of the same chunk still uploads
C3_Witness ==
  \E p, q \in DOMAIN runList :
    /\ p # q /\ ChunkOf(p) = ChunkOf(q)
    /\ \E i \in DOMAIN files :
         files[i].id = runList[p] /\ files[i].status = "error"
           /\ files[i].error = ErrCancelled
    /\ runList[q] \in activeUploads
    /\ Listed(files, runList[q]) /\ StatusOf(files, runList[q]) = "uploading"

\* C4: under FairSpec a running batch always ends (uploading returns to false),
\* and when it ends the loop has passed every file of the list, every listed
\* file of the batch is in success or error and no request is left in flight,
\* whatever failed on the way.
C4_BatchCompletes ==
  /\ uploading ~> ~uploading
  /\ [][(uploading /\ ~uploading') =>
         /\ runI + maxParallel >= Len(runList)
         /\ \A p \in DOMAIN runList : Finished(files, runList[p])
         /\ activeUploads = {}]_vars

\* a file of a later chunk is uploading although a file of an earlier chunk failed
C4_Witness ==
  /\ uploading
  /\ \E p, q \in DOMAIN runList :
       /\ ChunkOf(p) < ChunkOf(q)
       /\ Listed(files, runList[p]) /\ StatusOf(files, runList[p]) = "error"
       /\ runList[q] \in activeUploads

\* the step of uploadAll that takes the retry branch
RetryStep ==
  /\ ~uploading /\ uploading'
  /\ FilterStatus(files, "pending") = <<>>
  /\ FilterStatus(files, "error") # <<>>

\* C5: retry hands exactly the files in error to uploadInParallel, having reset them
\* to pending with progress 0, and leaves every success file as it is; no step at
\* all sends a request for a file in success or changes its status.
C5_RetryOnlyFailed ==
  [][/\ RetryStep =>
          /\ runList' = FilterStatus(files, "error")
          /\ Len(files') = Len(files)
          /\ \A i \in DOMAIN files :
               /\ files[i].status = "error" =>
                    /\ files'[i].id = files[i].id
                    /\ files'[i].status \in {"pending", "uploading"}
                    /\ files'[i].progress = 0
                    /\ files'[i].error = "none"
               /\ files[i].status = "success" =>
                    /\ files'[i] = files[i]
                    /\ files[i].id \notin Range(runList')
     /\ \A id \in IdsWithStatus(files, "success") :
          /\ id \notin activeUploads'
          /\ Listed(files', id) => StatusOf(files', id) = "success"]_vars

\* a retry is running (a file listed before a finished one is uploading again)
\* next to a file that stays in success
C5_Witness ==
  /\ uploading
  /\ \E i, j \in DOMAIN files :
       /\ i < j
       /\ files[j].status = "success" /\ files[j].id \notin Range(runList)
       /\ files[i].status = "uploading" /\ files[i].id \in Range(runList)

\* C6: the modal closes while a request is in flight only when the user confirmed
\* the prompt, and declining the prompt changes neither the file list nor the
\* requests in flight and leaves the modal open.
C6_CloseNeedsConfirm ==
  [][/\ (isOpen /\ ~isOpen') => (activeUploads = {} \/ prompt' = "confirmed")
     /\ (HandleClose(FALSE) /\ activeUploads # {}) =>
          /\ files' = files
          /\ activeUploads' = activeUploads
          /\ awaiting' = awaiting
          /\ isOpen']_vars

\* the prompt was declined: the modal is open and requests are still in flight
C6_Witness ==
  /\ isOpen
  /\ prompt = "declined"
  /\ activeUploads # {}
  /\ \E i \in DOMAIN files : files[i].status = "uploading"

\* ---------------------------------------------------------------- listing claims
\* every object the pages of the current query returned, in order
RECURSIVE Returned(_)
Returned(ps) == IF ps = <<>> THEN <<>> ELSE ps[1].objects \o Returned(Tail(ps))

NoDuplicates(seq) == \A i, j \in DOMAIN seq : seq[i] = seq[j] => i = j

\* the caller has followed the tokens until its query has no next page
PagingDone == pages # <<>> /\ ~hasNextPage

\* the objects of the bucket that lie under the prefix and satisfy every filter of q
Matching(b, q) ==
  {o \in b : /\ StartsWith(o.Key, q.prefix)
             /\ matchesFilename(o, q.filename) /\ matchesFileType(o, q.fileType)
             /\ matchesMinSize(o, q.minSize) /\ matchesMaxSize(o, q.maxSize)
             /\ matchesDateFrom(o, q.dateFrom) /\ matchesDateTo(o, q.dateTo)}

\* the number of pages the storage API cuts the keys under the prefix into
UpstreamPages(b, prefix) ==
  LET n == Cardinality({o \in b : StartsWith(o.Key, prefix)})
  IN IF n = 0 THEN 1 ELSE (n + MaxKeys - 1) \div MaxKeys

\* C7: for an unchanged bucket and fixed parameters, paging from no token until no
\* token is returned asks for every upstream page exactly once, and the objects
\* returned are exactly the bucket's objects under the prefix that pass all filters,
\* each once.
C7_PagingCompleteAndExact ==
  (PagingDone /\ ~bucketChanged) =>
    /\ Len(pages) = UpstreamPages(bucket, query.prefix)
    /\ NoDuplicates(pageParams)
    /\ NoDuplicates(Returned(pages))
    /\ Range(Returned(pages)) = {transformObject(o) : o \in Matching(bucket, query)}

\* a filtered listing of several pages that returned some, but not all, objects
C7_Witness ==
  /\ PagingDone /\ ~bucketChanged
  /\ Len(pages) >= 3
  /\ query.filename # Undefined
  /\ Returned(pages) # <<>>
  /\ Len(Returned(pages)) < Cardinality({o \in bucket : StartsWith(o.Key, query.prefix)})

\* C8: the nextContinuationToken of every listing response is the one the upstream
\* list call returned for that request, however many objects survive the filters.
C8_TokenFollowsUpstream ==
  [][((pages' # pages \/ query' # query) /\ pages' # <<>>) =>
       LET k == Len(pages')
       IN pages'[k].nextContinuationToken =
            ListObjectsV2(bucket, query'.prefix, pageParams'[k], MaxKeys).NextContinuationToken
     ]_vars

\* a response with no object at all that still carries a continuation token
C8_Witness ==
  \E k \in DOMAIN pages :
    /\ pages[k].objects = <<>>
    /\ pages[k].totalObjects > 0
    /\ pages[k].nextContinuationToken # Undefined

\* the complete listing for parameters q: the keys of all pages, following the tokens
RECURSIVE ListedKeys(_, _, _)
ListedKeys(b, q, token) ==
  LET page == getObjects(b, q, token)
      keys == {page.objects[i].key : i \in DOMAIN page.objects}
  IN IF getNextPageParam(page) = Undefined
       THEN keys
       ELSE keys \cup ListedKeys(b, q, getNextPageParam(page))

PrefixQuery(prefix) == [NoFilters EXCEPT !.prefix = prefix]

\* P joined to the file name with exactly one '/' between them
JoinedKey(prefix, name) ==
  IF prefix = <<>> THEN name
  ELSE (IF EndsWith(prefix, <<"/">>) THEN SubSeq(prefix, 1, Len(prefix) - 1) ELSE prefix)
         \o <<"/">> \o name

\* C9: after a successful upload of file F through the modal with current prefix P,
\* the listing with prefix=P contains the key P/F (F when P is empty); after a
\* successful DELETE of a key, the listing with prefix=P no longer contains it.
C9_UploadListDelete ==
  [][(pages' = pages /\ query' = query) =>
       /\ \A pr \in Prefixes, n \in FileNames, d \in Dates :
            UploadViaModal(pr, n, d, TRUE) =>
              JoinedKey(pr, n) \in ListedKeys(bucket', PrefixQuery(pr), Undefined)
       /\ \A k \in KeyUniverse :
            DeleteViaPage(k, TRUE) =>
              \A pr \in Prefixes : k \notin ListedKeys(bucket', PrefixQuery(pr), Undefined)
     ]_vars

\* the key a/r.pdf was uploaded and listed under prefix a/, and has been deleted since
C9_Witness ==
  /\ query = PrefixQuery(<<"a", "/">>)
  /\ JoinedKey(<<"a", "/">>, NameReport) \in Range([i \in DOMAIN Returned(pages) |->
                                                   Returned(pages)[i].key])
  /\ bucketChanged
  /\ \A o \in bucket : o.Key # JoinedKey(<<"a", "/">>, NameReport)

\* ---------------------------------------------------------------- credential cache
\* request r leaves the program position pc in this step
Leaves(r, pc) == call[r].pc = pc /\ call'[r].pc # pc

\* getR2Credentials returns to request r in this step, from the cache or after a query
ReturnsFromCache(r) == call[r].pc = "idle" /\ returned'.caller = r /\ ~returned'.read
ReturnsAfterQuery(r) == Leaves(r, "fetched")

\* C10: a call of getR2Credentials returns the cached object without a database read
\* exactly when the cache holds an object and less than CACHE_TTL has passed since
\* lastFetch; otherwise it reads the credential rows and, on resuming, replaces
\* cachedCredentials by the object built from them and lastFetch by the current
\* time and returns that object. Nothing else changes the two module variables,
\* which all requests share.
C10_CacheContract ==
  [][/\ \A r \in Callers :
          /\ ReturnsFromCache(r) =>
               /\ ~cachedCredentials.isNull /\ now - lastFetch < CACHE_TTL
               /\ returned'.result = cachedCredentials
               /\ UNCHANGED <<cachedCredentials, lastFetch, call>>
          /\ Leaves(r, "idle") =>
               /\ cachedCredentials.isNull \/ now - lastFetch >= CACHE_TTL
               /\ call'[r].pc = "query"
               /\ returned'.caller = 0
          /\ Leaves(r, "query") =>
               /\ call'[r].pc = "fetched"
               /\ call'[r].rows = SelectSeq(appConfig, LAMBDA row : row.key \in CredentialKeys)
               /\ returned'.caller = 0
          /\ ReturnsAfterQuery(r) =>
               /\ call'[r].pc = "idle"
               /\ cachedCredentials' = Object(reduceCredentials(call[r].rows))
               /\ lastFetch' = now
               /\ returned' = Return(r, TRUE, cachedCredentials')
     /\ (cachedCredentials' # cachedCredentials \/ lastFetch' # lastFetch)
          => \E r \in Callers : ReturnsAfterQuery(r)
     /\ returned'.caller # 0
          => \E r \in Callers : ReturnsFromCache(r) \/ ReturnsAfterQuery(r)
    ]_vars

\* a request is answered from the cache, one minute before it expires, with all five
\* credentials, while another request is between its query and its cache update
C10_Witness ==
  \E r, s \in Callers :
    /\ r # s
    /\ returned.caller = r /\ ~returned.read
    /\ Cardinality(returned.result.entries) = Len(RequiredFields)
    /\ now - lastFetch = CACHE_TTL - 1
    /\ call[s].pc = "fetched"

\* the credential object the table holds now
CurrentCredentials == Object(reduceCredentials(findMany(appConfig)))

\* an object read at time t is the table's content of some moment of the last
\* CACHE_TTL: it was read then, or the table has not changed since, or changed last
\* within that time
WithinTtl(t, object) ==
  \/ now - t <= CACHE_TTL
  \/ object = CurrentCredentials
  \/ now - changedAt <= CACHE_TTL

\* C11: every object getR2Credentials returns, from the cache or after its own
\* query, is the content of the credential rows as read at most CACHE_TTL before
\* the return.
C11_StalenessBounded ==
  [][\A r \in Callers :
       /\ ReturnsFromCache(r) => WithinTtl(cachedReadAt, returned'.result)
       /\ ReturnsAfterQuery(r) => WithinTtl(readAt[r], returned'.result)]_vars

\* ---------------------------------------------------------------- storage setup
\* C12: a POST /setup/r2 whose body lacks one of the five required fields, or whose
\* ListBuckets test fails, is answered 400 and leaves app_config unchanged; rows are
\* inserted only by a request that passed both checks.
C12_SetupPersistsNothingOnReject ==
  [][/\ \A body \in Bodies, connected \in BOOLEAN :
          (/\ SetupPost(body, connected)
           /\ ((\E f \in CredentialKeys : fieldMissing(body, f)) \/ ~connected))
            => /\ setup' = Responded(400)
               /\ appConfig' = appConfig
     /\ appConfig' # appConfig =>
          /\ setup.pc \in {"insert", "mark"}
          /\ \A f \in CredentialKeys : ~fieldMissing(setup.body, f)
    ]_vars

\* a request was answered 400 and the table is still empty
C12_Witness == setup = Responded(400) /\ appConfig = <<>>

\* no two rows of app_config have the same key
NoDuplicateKeys ==
  \A i, j \in DOMAIN appConfig : appConfig[i].key = appConfig[j].key => i = j

\* an insert of the setup loop is tried for a key the table already holds
InsertOfExistingKey ==
  /\ setup.pc = "insert"
  /\ setup' # setup
  /\ hasKey(appConfig, setup.body[setup.idx].key)

\* C13 as stated: a second setup inserts a further row for a key that exists, and
\* the readers' object then carries the value written last.
C13_RerunAddsRows ==
  [][InsertOfExistingKey =>
       /\ Len(appConfig') = Len(appConfig) + 1
       /\ <<setup.body[setup.idx].key, setup.body[setup.idx].value>>
            \in reduceCredentials(findMany(appConfig'))]_vars

\* C13, amended: app_config never holds two rows with one key; a setup run again
\* fails at its first insert, is answered 500 and leaves the table unchanged, so
\* the readers keep seeing the value written first for each key.
C13_RerunRejected ==
  /\ []NoDuplicateKeys
  /\ [][/\ InsertOfExistingKey => (setup' = Responded(500) /\ appConfig' = appConfig)
        /\ reduceCredentials(findMany(appConfig))
             \subseteq reduceCredentials(findMany(appConfig'))]_vars

\* a setup run on the complete table was answered 500
C13_Witness ==
  /\ setup = Responded(500)
  /\ hasKey(appConfig, "setup_completed")
  /\ Cardinality(reduceCredentials(findMany(appConfig))) = Len(RequiredFields)

\* ---------------------------------------------------------------- admin bootstrap
\* C14: after any interleaving of POST /setup/admin requests the users table holds
\* at most one user, and a request whose check finds a user is answered 400
\* 'Admin account already exists' and changes nothing.
C14_AdminOnce ==
  /\ [](Len(users) <= 1)
  /\ [][\A q \in AdminRequests :
          (admin[q].pc = "check" /\ admin'[q].pc # "check" /\ users # <<>>)
            => (admin'[q] = AdminResponded(400, ErrExists) /\ users' = users)]_vars

\* ---------------------------------------------------------------- page middleware
\* the path is base itself or lies below it
Under(path, base) == path = base \/ StartsWith(path, base \o <<"/">>)

\* the four rules of the claim, for a test of 'the request is to /setup' and one of
\* 'the request is to /login'
GateRules(onSetup, onLogin) ==
  gate.response # "" =>
    /\ (gate.setupNeeded /\ ~onSetup) => gate.response = "/setup"
    /\ (~gate.setupNeeded /\ onSetup) => gate.response = "/"
    /\ (~gate.setupNeeded /\ ~onSetup /\ ~gate.isLoggedIn /\ ~onLogin)
         => gate.response = "/login"
    /\ (~gate.setupNeeded /\ ~onSetup /\ gate.isLoggedIn /\ onLogin)
         => gate.response = "/"

\* C15 as stated: while setup is needed every request to a path not under /setup is
\* redirected to /setup; afterwards a request to /setup is redirected to '/', an
\* unauthenticated request to a page other than /login to /login, and an
\* authenticated request to /login to '/'.
C15_GatingByPage == GateRules(Under(gate.path, PathSetup), Under(gate.path, PathLogin))

\* C15, amended: the same four rules with 'the pathname starts with /setup' and
\* 'the pathname starts with /login' as the two tests.
C15_GatingByPrefix ==
  GateRules(StartsWith(gate.path, PathSetup), StartsWith(gate.path, PathLogin))

\* setup is complete and an unauthenticated request to a bucket page was sent to
\* /login
C15_Witness ==
  /\ gate.path = <<"/", "b">>
  /\ ~gate.setupNeeded /\ ~gate.isLoggedIn
  /\ gate.response = "/login"
  /\ users # <<>> /\ hasKey(appConfig, "setup_completed")

\* ---------------------------------------------------------------- withAuth
\* C16: the wrapped handler runs only for a request whose session has a user and,
\* when requiredRole is set, whose user's role equals it; a request without a
\* session (or without a user in it) is answered 401 and one with another role 403,
\* and neither reaches the handler: the bucket is unchanged.
C16_HandlerOnlyWhenAuthorized ==
  [][LET a == api'
         hasUser == a.session \in {"admin", "viewer"}
     IN /\ a.handled => (hasUser /\ (a.requiredRole = "" \/ a.session = a.requiredRole))
        /\ a.session \in {"none", "nouser"} => a.status = 401
        /\ (hasUser /\ a.requiredRole # "" /\ a.session # a.requiredRole) => a.status = 403
        /\ a.status \in {401, 403} => ~a.handled
        /\ ~a.handled => bucket' = bucket]_vars

\* a DELETE without a session was answered 401 and its object is still stored
C16_Witness ==
  /\ api.method = "DELETE" /\ api.session = "none" /\ api.status = 401
  /\ \E o \in bucket : o.Key = api.key

\* ---------------------------------------------------------------- search box
RecognisedPrefixes == {PrefixType, PrefixMinSize, PrefixMaxSize, PrefixAfter, PrefixBefore}
HasRecognisedPrefix(t) == \E p \in RecognisedPrefixes : StartsWith(t, p)
HasColon(t) == \E i \in DOMAIN t : t[i] = Colon
QuoteFree(q) == \A i \in DOMAIN q : q[i] # Quote

\* the tokens of a query without quotes: its pieces between spaces
Words(q) ==
  LET NonEmpty(w) == w # <<>> IN SelectSeq(Split(q, " "), NonEmpty)
Unprefixed(q) ==
  LET Is(t) == ~HasRecognisedPrefix(t) IN SelectSeq(Words(q), Is)
PlainText(q) ==
  LET Is(t) == ~HasRecognisedPrefix(t) /\ ~HasColon(t) IN SelectSeq(Words(q), Is)

\* prefix and filename are both the last of the tokens, or both absent when there
\* is none
BothAreLastOf(tokens) ==
  LET text == IF tokens = <<>> THEN Undefined ELSE tokens[Len(tokens)]
  IN search.parsed.prefix = text /\ search.parsed.filename = text

QuoteAt(q) == {i \in DOMAIN q : q[i] = Quote}
QuoteOpen(q) == CHOOSE i \in QuoteAt(q) : \A j \in QuoteAt(q) : i <= j
QuoteClose(q) == CHOOSE i \in QuoteAt(q) : \A j \in QuoteAt(q) : j <= i
QuotedText(q) == SubSeq(q, QuoteOpen(q) + 1, QuoteClose(q) - 1)
TokenStart(q) ==
  LET before == {k \in 1..QuoteOpen(q) : q[k] = " "}
  IN IF before = {} THEN 1 ELSE (CHOOSE k \in before : \A m \in before : m <= k) + 1
QuotedToken(q) == SubSeq(q, TokenStart(q), Len(q))

\* a query that ends with a token holding one quoted stretch with a space in it,
\* the token being one that sets a field
EndsWithQuotedToken(q) ==
  /\ Cardinality(QuoteAt(q)) = 2
  /\ \E i \in DOMAIN QuotedText(q) : QuotedText(q)[i] = " "
  /\ \A k \in QuoteClose(q)..Len(q) : q[k] # " "
  /\ HasRecognisedPrefix(QuotedToken(q)) \/ ~HasColon(QuotedToken(q))

WithoutQuotes(t) == LET NotQuote(c) == c # Quote IN SelectSeq(t, NotQuote)
WithoutPrefix(t) ==
  IF HasRecognisedPrefix(t)
    THEN LET p == CHOOSE r \in RecognisedPrefixes : StartsWith(t, r)
         IN SubSeq(t, Len(p) + 1, Len(t))
    ELSE t
FieldsOf(p) == {p.prefix, p.filename, p.type, p.minSize, p.maxSize, p.dateFrom, p.dateTo}

ExampleResult ==
  [NoSearchParams EXCEPT !.type = TextImage, !.minSize = <<"1", "m", "b">>,
                         !.prefix = TextMyFile, !.filename = TextMyFile]
ExampleHolds == search.query = ExampleQuery => search.parsed = ExampleResult

\* C18, as stated: a quoted stretch with spaces stays in one token and the token's
\* value is its text with the surrounding quotes stripped; the example query
\* yields exactly type, minSize, prefix and filename as given.
C18_QuotesAlwaysStripped ==
  /\ EndsWithQuotedToken(search.query) =>
       WithoutPrefix(WithoutQuotes(QuotedToken(search.query))) \in FieldsOf(search.parsed)
  /\ ExampleHolds

\* C18: a quoted stretch with spaces stays in one token; the quotes are stripped
\* when the token begins and ends with a quote, and are kept as part of the value
\* otherwise (type:"a a" gives type = "a a" with its quotes); the example query
\* yields exactly type, minSize, prefix and filename as given.
C18_QuotesStrippedAroundToken ==
  /\ EndsWithQuotedToken(search.query) =>
       LET token == QuotedToken(search.query)
           wrapped == token[1] = Quote /\ token[Len(token)] = Quote
       IN (IF wrapped THEN QuotedText(search.query) ELSE WithoutPrefix(token))
            \in FieldsOf(search.parsed)
  /\ ExampleHolds

\* the example query has been parsed
C18_Witness ==
  /\ search.query = ExampleQuery
  /\ search.parsed.filename = TextMyFile
  /\ EndsWithQuotedToken(search.query)

\* the size typed after size> or size< in a query of that one token
IsSizeQuery(q) ==
  /\ StartsWith(q, PrefixMinSize) \/ StartsWith(q, PrefixMaxSize)
  /\ \A i \in DOMAIN q : q[i] \notin {" ", Quote}
SizeTyped(q) == SubSeq(q, Len(PrefixMinSize) + 1, Len(q))
SizeSent == IF StartsWith(search.query, PrefixMinSize) THEN search.minSize ELSE search.maxSize

\* n + unit, n a string of digits and unit one of b, kb, mb, gb, tb in any case or
\* absent
SizeNumber(s) == SubSeq(s, 1, digitsAhead(s))
SizeUnit(s) == ToLowerCase(SubSeq(s, digitsAhead(s) + 1, Len(s)))
IsSize(s) == digitsAhead(s) > 0 /\ SizeUnit(s) \in Units \cup {<<>>}
PowerOf(unit) ==
  CASE unit \in {<<>>, <<"b">>} -> 0 [] unit = <<"k", "b">> -> 1 [] unit = <<"m", "b">> -> 2
    [] unit = <<"g", "b">> -> 3 [] unit = <<"t", "b">> -> 4
\* the decimal digits of n * 1024^k
RECURSIVE TimesPower(_, _)
TimesPower(digits, k) ==
  IF k = 0 THEN digits ELSE TimesPower(times(digits, 1024, 0), k - 1)

\* C19: for n + unit the size parameter sent is the decimal string of n * 1024^k;
\* for every other text after size> or size< no size parameter is sent.
C19_SizeInBytes ==
  IsSizeQuery(search.query) =>
    LET s == SizeTyped(search.query)
    IN SizeSent = IF IsSize(s) THEN TimesPower(parseInt(SizeNumber(s)), PowerOf(SizeUnit(s)))
                  ELSE Undefined

\* ---------------------------------------------------------------- type categories
\* the five categories of the search syntax help and their extensions: image,
\* document and archive as in the route's table, code and media as in the page's
CategoryCode == <<"c", "o", "d", "e">>
CategoryMedia == <<"m", "e", "d", "i", "a">>
Categories ==
  {TextImage, <<"d", "o", "c", "u", "m", "e", "n", "t">>, CategoryCode, CategoryMedia,
   <<"a", "r", "c", "h", "i", "v", "e">>}
CategoryExtensions(category) ==
  CASE category = CategoryCode ->
      {<<"j", "s">>, <<"t", "s">>, <<"p", "y">>, <<"j", "a", "v", "a">>, <<"c", "p", "p">>,
       <<"h", "t", "m", "l">>, <<"c", "s", "s">>, <<"j", "s", "o", "n">>,
       <<"y", "a", "m", "l">>, <<"y", "m", "l">>}
    [] category = CategoryMedia ->
      {<<"m", "p", "3">>, <<"m", "p", "4">>, <<"a", "v", "i">>, <<"m", "o", "v">>, <<"w", "a", "v">>}
    [] OTHER -> extensionsOf(category)

\* the last '.'-separated segment of a key, lower-cased
LastSegment(key) ==
  LET dots == {i \in DOMAIN key : key[i] = "."}
      from == IF dots = {} THEN 1 ELSE (CHOOSE i \in dots : \A j \in dots : j <= i) + 1
  IN ToLowerCase(SubSeq(key, from, Len(key)))

\* the upstream page of a request: the next MaxKeys objects in key order
UpstreamPage(b, token) ==
  LET after == {o \in b : token = Undefined \/ StrLess(token, o.Key)}
  IN {o \in after : Cardinality({x \in after : StrLess(x.Key, o.Key)}) < MaxKeys}

\* C20: with fileType one of image, document, code, media, archive the response
\* holds exactly the objects of the upstream page whose extension is in the
\* category's extension set and that pass the other filter (minSize).
C20_FiveCategories ==
  listing.q.fileType \in Categories =>
    {o.key : o \in Range(listing.response.objects)}
      = {o.Key : o \in {x \in UpstreamPage(listing.bucket, listing.token) :
                          /\ LastSegment(x.Key) \in CategoryExtensions(listing.q.fileType)
                          /\ (listing.q.minSize # NoNumber => x.Size >= listing.q.minSize)}}

\* the same for the three categories the route's table holds
C20_RouteCategories ==
  listing.q.fileType \in Categories \ {CategoryCode, CategoryMedia} =>
    {o.key : o \in Range(listing.response.objects)}
      = {o.Key : o \in {x \in UpstreamPage(listing.bucket, listing.token) :
                          /\ LastSegment(x.Key) \in CategoryExtensions(listing.q.fileType)
                          /\ (listing.q.minSize # NoNumber => x.Size >= listing.q.minSize)}}

\* ---------------------------------------------------------------- page fetches
Answered == fetch.stage = "answered" /\ fetch.response.status = 200
FetchFilters == requestFilters(fetch.params)
\* the page the storage API returned for the request
FetchUpstream ==
  ListObjectsV2(fetch.bucket, FetchFilters.prefix, fetch.token, FetchMaxKeys).Contents
KeysOf(objs) == {objs[i].Key : i \in DOMAIN objs}
ResponseKeys == {fetch.response.body.objects[i].key : i \in DOMAIN fetch.response.body.objects}

\* minSize <= size <= maxSize, a missing size counted as 0 and an absent bound as
\* no bound (a bound that is not a number admits nothing)
InSizeRange(o, lo, hi) ==
  LET size == IF o.Size = NoNumber THEN 0 ELSE o.Size
  IN /\ lo # NoNumber => (lo # NaN /\ lo <= size)
     /\ hi # NoNumber => (hi # NaN /\ size <= hi)

\* C21: on the upstream page the minSize filter followed by the maxSize filter, the
\* maxSize filter followed by the minSize filter and the one range predicate select
\* the same objects, and the response holds the objects in the range that pass the
\* other filters.
C21_SizeFiltersCommute ==
  Answered =>
    LET q == FetchFilters
        AboveMin(o) == matchesMinSize(o, q.minSize)
        BelowMax(o) == matchesMaxSize(o, q.maxSize)
        InRange(o) == InSizeRange(o, q.minSize, q.maxSize)
        Others(o) == /\ matchesFilename(o, q.filename) /\ matchesFileType(o, q.fileType)
                     /\ matchesDateFrom(o, q.dateFrom) /\ matchesDateTo(o, q.dateTo)
    IN /\ SelectSeq(SelectSeq(FetchUpstream, AboveMin), BelowMax) = SelectSeq(FetchUpstream, InRange)
       /\ SelectSeq(SelectSeq(FetchUpstream, BelowMax), AboveMin) = SelectSeq(FetchUpstream, InRange)
       /\ ResponseKeys = KeysOf(SelectSeq(SelectSeq(FetchUpstream, InRange), Others))

\* a request with both bounds answered with one of the two objects of its page, the
\* other one having no size
C21_Witness ==
  /\ Answered
  /\ FetchFilters.minSize = 2 /\ FetchFilters.maxSize = 3
  /\ Len(FetchUpstream) = 2
  /\ \E i \in DOMAIN FetchUpstream : FetchUpstream[i].Size = NoNumber
  /\ Cardinality(ResponseKeys) = 1

\* the response to a text typed into the search box, for the bucket, token and
\* storage outcome of the fetch
AnswerTo(text) ==
  getObjectsResponse(fetch.bucket, queryFnParams(parseSearchQuery(text)), fetch.token,
                     fetch.response.status = 200)
WellFormedTokens == TextTokens \ MalformedTokens
KindOf(t) == CHOOSE p \in RecognisedPrefixes : StartsWith(t, p)
SameKind(t, u) == HasRecognisedPrefix(t) /\ HasRecognisedPrefix(u) /\ KindOf(t) = KindOf(u)

\* C22, as stated: a query with a malformed size or date token is answered as the
\* query without that token is, never with an error of its own.
C22_MalformedTokenIgnored ==
  fetch.stage = "answered" =>
    \A m \in MalformedTokens, r \in WellFormedTokens :
      /\ fetch.text = m => fetch.response = AnswerTo(<<>>)
      /\ fetch.text \in {Join(<<m, r>>, " "), Join(<<r, m>>, " ")} => fetch.response = AnswerTo(r)

\* C22: a query with a malformed size or date token is answered, never with an
\* error of its own, as the query without that token is, unless the token follows
\* a token of its own kind (size>, size<, after:, before:): the last token of a kind
\* is the one that counts, so the query is then answered as if neither were in it.
C22_MalformedTokenCancelsKind ==
  fetch.stage = "answered" =>
    \A m \in MalformedTokens, r \in WellFormedTokens :
      /\ fetch.text = m => fetch.response = AnswerTo(<<>>)
      /\ fetch.text = Join(<<m, r>>, " ") => fetch.response = AnswerTo(r)
      /\ fetch.text = Join(<<r, m>>, " ") =>
           fetch.response = AnswerTo(IF SameKind(r, m) THEN <<>> ELSE r)

\* size>2 size>x answered with an object smaller than 2
C22_Witness ==
  /\ Answered
  /\ fetch.text = Join(<<PrefixMinSize \o <<"2">>, PrefixMinSize \o TextX>>, " ")
  /\ \E i \in DOMAIN fetch.response.body.objects : fetch.response.body.objects[i].size < 2

\* the page of the bucket the request's token leads to, whatever the text typed
BucketPage == ListObjectsV2(fetch.bucket, Undefined, fetch.token, FetchMaxKeys).Contents
ContainsText(key, t) == Includes(ToLowerCase(key), ToLowerCase(t))
NamesFound(t) == {k \in KeysOf(BucketPage) : ContainsText(k, t)}

\* C23: for a query of one plain token t, of any length, the objects returned are
\* the objects of the page whose key contains t, case-insensitively, anywhere.
C23_FreeTextSearchesNames ==
  Answered /\ fetch.text \in PlainTokens => ResponseKeys = NamesFound(fetch.text)

\* the same for the tokens of more than two characters
C23_LongTextSearchesNames ==
  Answered /\ fetch.text \in PlainTokens /\ Len(fetch.text) > 2 =>
    ResponseKeys = NamesFound(fetch.text)

\* ---------------------------------------------------------------- cancelled batches
\* the batch is about to send its next chunk: the await of uploadInParallel has
\* settled and the loop has files left; no event is handled before LoopResume
NextChunkDue == MicrotaskPending /\ LoopContinues(runI + maxParallel, runList, files)

\* C24: Cancel All, pressed or reached by confirming the close prompt, leaves no
\* file in status 'uploading' and a batch that sends nothing more.
C24_CancelAllStopsBatch ==
  [][(CancelAllUploads \/ (HandleClose(TRUE) /\ activeUploads # {}))
       => /\ \A i \in DOMAIN files' : files'[i].status # "uploading"
          /\ ~NextChunkDue']_vars

\* ---------------------------------------------------------------- removed files
\* C25: no upload request is ever in flight for a file that was removed from the
\* list while it was pending.
C25_RemovedNeverUploaded == activeUploads \cap removed = {}

\* ---------------------------------------------------------------- status machine
\* the status of file id in the list fs, "absent" when it is not listed
StatusOrAbsent(fs, id) ==
  IF \E i \in DOMAIN fs : fs[i].id = id
    THEN (CHOOSE f \in Range(fs) : f.id = id).status
    ELSE "absent"

EntryOf(fs, id) == CHOOSE f \in Range(fs) : f.id = id

\* C26: in every step each file's status follows pending -> uploading ->
\* (success | error); an error file leaves 'error' only in the retry step, which
\* resets it to pending (and marks the first chunk uploading in the same handler);
\* a success entry is never changed while it is listed; a file becomes success only
\* from uploading, in the load event of a 2xx response, with progress 100.
C26_StatusMachine ==
  [][\A id \in FileIds :
       LET a == StatusOrAbsent(files, id)
           b == StatusOrAbsent(files', id)
       IN /\ a = "absent" => b \in {"absent", "pending"}
          /\ a = "pending" => b \in {"pending", "uploading", "absent"}
          /\ a = "uploading" => b \in {"uploading", "success", "error", "absent"}
          /\ a = "error" => \/ b \in {"error", "absent"}
                            \/ RetryStep /\ UploadAll /\ b \in {"pending", "uploading"}
          /\ a = "success" => b \in {"success", "absent"}
          /\ (a = "success" /\ b = "success") => EntryOf(files', id) = EntryOf(files, id)
          /\ (a # "success" /\ b = "success") =>
               /\ a = "uploading"
               /\ XhrLoad(id, TRUE)
               /\ EntryOf(files', id).progress = 100]_vars

\* a file stays successful while a second one was cancelled and a third one is
\* uploading, after a progress event below 100
C26_Witness ==
  /\ \E i \in DOMAIN files : files[i].status = "success" /\ files[i].progress = 100
  /\ \E i \in DOMAIN files : files[i].status = "error" /\ files[i].error = ErrCancelled
  /\ \E i \in DOMAIN files : files[i].status = "uploading" /\ files[i].progress = 50

\* ---------------------------------------------------------------- selection
\* C27: every selected key is the key of a displayed object.
C27_SelectionDisplayed == selectedObjects \subseteq displayedKeys

\* ---------------------------------------------------------------- after setup
\* POST /setup/r2 has answered 200: its last insert, the setup_completed row, is in
\* app_config (rows are never deleted)
SetupSucceeded == hasKey(appConfig, "setup_completed")

\* the five persisted credentials as getR2Credentials builds them from the rows
PersistedCredentials == Object(reduceCredentials(findMany(appConfig)))

\* C28: once POST /setup/r2 has returned success, a call of getR2Credentials that
\* starts afterwards returns the five persisted credentials, from the cache or from
\* its query.
C28_AfterSetupCredentials ==
  [][SetupSucceeded =>
       /\ {e[1] : e \in PersistedCredentials.entries} = CredentialKeys
       /\ \A r \in Callers :
            /\ (GetR2Credentials(r) /\ returned'.caller = r)
                 => returned'.result = PersistedCredentials
            /\ (call[r].pc = "idle" /\ call'[r].pc = "query")
                 => Object(reduceCredentials(findMany(appConfig'))) = PersistedCredentials]_vars

\* ---------------------------------------------------------------- setup complete
\* C29: when the middleware has treated setup as complete (setupNeeded false, no
\* redirect to /setup), a user exists and app_config holds the five credentials
\* and the setup_completed row.
C29_CompleteMeansConfigured ==
  (gate # NoGate /\ ~gate.setupNeeded) =>
    /\ Len(users) >= 1
    /\ \A k \in CredentialKeys \cup {"setup_completed"} : hasKey(appConfig, k)

\* ---------------------------------------------------------------- redirects
\* the middleware's answer to the request that follows the answer r, with the same
\* session and setup state
Followed(r) ==
  IF r = "next" THEN "next"
  ELSE middleware(redirectPath(r), gate.isLoggedIn, gate.setupNeeded)

\* C30: following the redirects of the middleware's answer, with setup and login
\* state unchanged, reaches NextResponse.next() after at most two redirects.
C30_NoRedirectLoop ==
  gate # NoGate => Followed(Followed(gate.response)) = "next"

\* a request to /setup after setup, without a session: redirected to / and from
\* there to /login
C30_Witness ==
  /\ gate # NoGate
  /\ gate.response # "next"
  /\ Followed(gate.response) # "next"
  /\ Followed(Followed(gate.response)) = "next"

====
